---- MODULE Spec2Model ----
(***************************************************************************)
(* Recording supervisor of grabador_flask (src/recorder.py): the job       *)
(* registry, start_recording / stop_recording as called by the operator    *)
(* surface and by the scheduler tick, the supervised loop                  *)
(* record_rtsp_stream of every recorder thread, and the encoder processes. *)
(*                                                                         *)
(* Granularity.  A block under "with self.process_lock" is one step.  The  *)
(* accesses stop_recording makes outside the lock (stop_flags,             *)
(* recording_threads) are one step per dictionary operation.  In the       *)
(* thread, lines 291-302 are one step (a write of recording_stats and a    *)
(* read of stop_flags, which commute with every other step), and Popen     *)
(* with the registration of its handle (lines 378-386) is one step: a      *)
(* process is visible to the other threads only through the registry.      *)
(***************************************************************************)
EXTENDS Integers, Sequences, FiniteSets, TLC

\* ---------------------------------------------------------------- bounds
MaxCalls == 3      \* calls of start_recording and stop_recording made
MaxTasks == 2      \* recorder threads ever started
MaxProcs == 2      \* encoder processes ever launched (concurrency runs)
MaxCount == 1      \* cap of the failure counters (concurrency runs)
MaxRuns  == 8      \* encoder processes ever launched (backoff runs)
MaxFails == 8      \* cap of the failure counters (backoff runs)
MaxLoopCalls == 2  \* calls made in the backoff runs
MaxSchedCalls == 2 \* calls made in the scheduler runs
MaxClock == 7      \* periods of 60 s the clock of the scheduler runs covers
MaxAppCalls == 3   \* calls made in the application runs
MaxAppClock == 3   \* periods of 60 s the clock of the application runs covers
MaxSchedStarts == 1 \* calls of start() of the scheduler
MaxRestarts == 2       \* calls of start() in the scheduler restart runs
MaxRestartCalls == 2   \* calls of the recorder in the scheduler restart runs
MaxRestartClock == 5   \* periods of 60 s the scheduler restart runs cover
MaxDay == 2        \* days the dates of the retention runs cover
MaxStampCalls == 3 \* calls made in the restart runs
MaxStampClock == 5 \* seconds the clock of the restart runs covers
MaxRecordCalls == 2 \* calls made in the recording runs
MaxSegments == 2   \* segments an encoder writes in the recording runs
MaxRecordClock == 3 \* clock units the recording runs cover
MaxPairCalls == 3  \* calls made in the two-camera runs
MaxPairProcs == 2  \* encoder processes ever launched (two-camera runs)
MaxPresetCalls == 2 \* calls made in the preset runs
MaxGraceCalls == 2 \* calls made in the shutdown runs
MaxGraceClock == 12 \* seconds the clock of the shutdown runs covers

\* ------------------------------------------------------ program constants
FFMPEG_RECONNECT_DELAY == 5
FFMPEG_MAX_FAILURES    == 5
MAX_RETRY_DELAY        == 300
MAX_BACKOFF_EXPONENT   == 6
manual_stop_cooldown   == 300
TICK_PERIOD            == 60

None      == 0
CameraIds == {"cam1", "cam2", "cam3"}
Callers   == {"operator", "scheduler"}

\* class EncodingPreset, lines 18-27: the values of the presets
EncodingPreset ==
  {"copy", "h264_cpu", "h264_nvenc", "h264_amf", "h264_qsv", "h265_cpu",
   "h265_nvenc", "h265_amf"}

\* _detect_encoding_capabilities, line 198: what every host offers
Software == {"copy", "h264_cpu", "h265_cpu"}

VARIABLES
  cameras,              \* self.cameras: id -> "url" | "nourl" | "unknown"
  encoding_capabilities, \* self.encoding_capabilities: the presets of the host
  platform,             \* platform.system()
  recording_processes,  \* self.recording_processes: id -> process or None
  recording_threads,    \* self.recording_threads:   id -> thread or None
  recording_stats,      \* self.recording_stats: id -> thread owning the stats
  stop_flags,           \* self.stop_flags: id -> Event or None
  events,               \* the Events that are set
  task,                 \* the recorder threads, in order of creation
  proc,                 \* the encoder processes, in order of creation
  caller,               \* the threads calling start_recording/stop_recording
  started,              \* history: a start returned True, no stop called since
  stopped,              \* history: a stop returned True, no start True since
  ncalls,               \* history: the calls made so far
  limit,                \* the bounds of the run, fixed by the initial state
  now,                  \* the wall clock, in seconds (in the storage and
                        \* recording runs a day is scaled to DAY units)
  details,              \* scheduler.cameras: id -> "auto" | "nocoords" | "manual"
  sched,                \* the scheduler: its stop_event and its thread
  manual_stops,         \* scheduler.manual_stops: id -> timestamp or None
  sun_times_cache,      \* scheduler._sun_times_cache: id -> sun times
  human_stop,           \* history: time the operator's last stop returned True
  files,                \* the files in the camera directories of OUTPUT_DIR
  sweep                 \* the operation of the storage manager in progress

\* the recorder, the scheduler and the storage manager
rvars == <<cameras, encoding_capabilities, platform, recording_processes, recording_threads, recording_stats,
           stop_flags, events, task, proc, caller, started, stopped,
           ncalls, limit>>
svars == <<now, details, sched, manual_stops, sun_times_cache, human_stop>>
fvars == <<files, sweep>>

vars == <<cameras, encoding_capabilities, platform, recording_processes, recording_threads, recording_stats,
          stop_flags, events, task, proc, caller, started, stopped,
          ncalls, limit, now, details, sched, manual_stops, sun_times_cache,
          human_stop, files, sweep>>

\* what the recorder found on its host when it was constructed
host == <<encoding_capabilities, platform>>

registry == <<recording_processes, recording_threads, recording_stats,
              stop_flags>>

Tasks == 1..Len(task)
Procs == 1..Len(proc)

Min(a, b) == IF a < b THEN a ELSE b

RECURSIVE Pow2(_)
Pow2(n) == IF n = 0 THEN 1 ELSE 2 * Pow2(n - 1)

\* n + 1 for a failure counter, capped to keep the model finite
Inc(n) == Min(n + 1, limit.fails)

\* Event.is_set(); event 0 is the private Event() of line 299's default
IsSet(e) == e \in events

\* process.poll() is None
Running(p) == proc[p].st \in {"running", "terminating"}

\* get_recording_status(): the keys of the registry
get_recording_status == {c \in CameraIds : recording_processes[c] # None}

\* a recorder thread is alive from thread.start() until its function returns
Alive(t) == task[t].pc # "done"

AliveTasks(c) == {t \in Tasks : task[t].camera_id = c /\ Alive(t)}
RunningProcs(c) == {p \in Procs : proc[p].camera_id = c /\ Running(p)}

\* ------------------------------------------------------------------ Init
IdleCaller == [pc |-> "idle", op |-> "none", camera_id |-> "cam1",
               encoding_preset |-> "copy", wait_start |-> None,
               process |-> None, thread |-> None, result |-> "none",
               after_start |-> FALSE, saw_idle |-> FALSE,
               has_set |-> FALSE, live |-> FALSE]

\* Recorder.__init__, lines 59-63: no job, no thread, no stop flag
InitJobs ==
  /\ recording_processes = [c \in CameraIds |-> None]
  /\ recording_threads = [c \in CameraIds |-> None]
  /\ recording_stats = [c \in CameraIds |-> None]
  /\ stop_flags = [c \in CameraIds |-> None]
  /\ events = {}
  /\ task = <<>>
  /\ proc = <<>>
  /\ caller = [k \in Callers |-> IdleCaller]
  /\ started = [c \in CameraIds |-> FALSE]
  /\ stopped = [c \in CameraIds |-> FALSE]
  /\ ncalls = 0

\* cameras.json: cam1 has a stream URL, cam2 has none, cam3 is not in it
InitRegistry ==
  /\ cameras = [c \in CameraIds |->
                  IF c = "cam1" THEN "url" ELSE IF c = "cam2" THEN "nourl"
                  ELSE "unknown"]
  /\ encoding_capabilities = Software
  /\ platform = "Linux"
  /\ InitJobs

\* RecordingScheduler.__init__: no thread, no override, an empty cache.
\* Timestamps are seconds since 1970 and so positive: None is no timestamp.
NoSunTimes == [sunrise_today |-> None, sunset_today |-> None]

IdleScheduler ==
  [pc |-> "none", stop_event |-> FALSE, now_local |-> None, idx |-> 0,
   outcome |-> "none", is_night |-> FALSE, at |-> None, wake |-> None,
   error |-> "none", starts |-> 0, joining |-> FALSE]

InitScheduler ==
  /\ now = TICK_PERIOD
  /\ sched = IdleScheduler
  /\ manual_stops = [c \in CameraIds |-> None]
  /\ sun_times_cache = [c \in CameraIds |-> NoSunTimes]
  /\ human_stop = [c \in CameraIds |-> None]

\* cameras.json as the scheduler reads it: cam1 is operated automatically
AutoDetails ==
  [c \in CameraIds |-> IF c = "cam3" THEN "manual" ELSE "auto"]

\* StorageManager.__init__: no operation of the storage manager is running.
\* The record holds the local variables of the operation in progress: op is
\* its name, todo the files it has still to visit, listed the files of the
\* tree when it began, removed and errors its result so far, failed the
\* files whose removal raised and was logged only, entries the files of the
\* listing or of the archive it returns, current_size the usage as the quota
\* sweep counts it, aborted whether an exception ended the loop over the
\* files or the export, remove_after the argument of that name of an export.
IdleSweep ==
  [pc |-> "idle", op |-> "none", cutoff_date |-> 0, todo |-> {},
   listed |-> {}, removed |-> {}, errors |-> {}, failed |-> {},
   entries |-> {}, current_size |-> 0, aborted |-> FALSE,
   remove_after |-> FALSE]

InitStorage ==
  /\ files = {}
  /\ sweep = IdleSweep

\* the concurrency runs: two callers, a few calls, threads and processes
Init ==
  /\ InitRegistry
  /\ InitScheduler
  /\ details = AutoDetails
  /\ InitStorage
  /\ limit = [calls |-> MaxCalls, tasks |-> MaxTasks, procs |-> MaxProcs,
              fails |-> MaxCount, clock |-> 1]

\* the backoff runs: the loop of one recorder thread through many launches
InitLoop ==
  /\ InitRegistry
  /\ InitScheduler
  /\ details = AutoDetails
  /\ InitStorage
  /\ limit = [calls |-> MaxLoopCalls, tasks |-> 1, procs |-> MaxRuns,
              fails |-> MaxFails, clock |-> 1]

\* A result is "True", "False", "KeyError" (the exception stop_recording
\* lets escape when a dictionary key it tested is gone when it uses it) or
\* "ValueError" (the exception start_recording lets escape at line 510).
Return(k, res) ==
  [caller EXCEPT ![k].pc = "returned", ![k].result = res,
                 ![k].process = None, ![k].thread = None,
                 ![k].wait_start = None]

\* --------------------------------------------------------------- processes
\* subprocess.Popen: a new encoder process for camera c; start_time is the
\* timestamp of its output pattern (lines 316, 366-370), to the second, and
\* segment the number of the segment it writes
NewProc(c) ==
  [st |-> "running", rc |-> 0, camera_id |-> c, killed |-> FALSE,
   start_time |-> now, segment |-> 0]

\* process.terminate(), or on Windows the "q" written to the stdin of the
\* process: the request to end, a no-op on a process that has exited
Terminate(p) ==
  IF proc[p].st = "running" THEN [proc EXCEPT ![p].st = "terminating"] ELSE proc

\* process.kill(); process.wait(timeout=5)
Kill(p) ==
  [proc EXCEPT ![p].st = "exited", ![p].rc = 1, ![p].killed = TRUE]

\* The encoder exits by itself (stream failure, or clean end with code 0),
\* or exits on the terminate request within the grace period.
ProcExit(p) ==
  /\ Running(p)
  /\ \E code \in {0, 1} :
       /\ proc[p].st = "terminating" => code = 1
       /\ proc' = [proc EXCEPT ![p].st = "exited", ![p].rc = code]
  /\ UNCHANGED <<cameras, host, registry, events, task, caller, started, stopped, ncalls, limit>>

\* -------------------------------------------------------- start_recording
\* A caller enters start_recording(c).  The fields after_start, saw_idle,
\* has_set and live of a call are history: a start had returned True for the
\* camera and no stop was called since; the camera had no job and no thread
\* when the call was made; the call set an Event that was not set; the call
\* found a job in the registry.  encoding_preset is the preset asked for, by
\* its value.
StartRequest(k, c, preset) ==
  /\ caller[k].pc \in {"idle", "returned"}
  /\ ncalls < limit.calls
  /\ ncalls' = ncalls + 1
  /\ caller' = [caller EXCEPT ![k] =
       [pc |-> "start_check", op |-> "start", camera_id |-> c,
        encoding_preset |-> preset, wait_start |-> None,
        process |-> None, thread |-> None, result |-> "none",
        after_start |-> started[c],
        saw_idle |-> (recording_processes[c] = None /\ AliveTasks(c) = {}),
        has_set |-> FALSE, live |-> FALSE]]
  /\ UNCHANGED <<cameras, host, registry, events, task, proc, started, stopped,
                 limit>>

\* app.py lines 72 and 349, settings "default_encoding": a start that names
\* no preset asks for "copy"
StartInvoke(k, c) == StartRequest(k, c, "copy")

\* mutant of start_check: the test of the stream URL is forgotten
start_check_without_url_test(k) ==
  LET c == caller[k].camera_id IN
  /\ caller[k].pc = "start_check"
  /\ caller' =
       IF caller[k].encoding_preset \notin EncodingPreset
       THEN Return(k, "ValueError")
       ELSE IF recording_processes[c] # None THEN Return(k, "False")
       ELSE IF cameras[c] = "unknown" THEN Return(k, "False")
       ELSE [caller EXCEPT ![k].pc = "start_launch"]
  /\ UNCHANGED <<cameras, host, registry, events, task, proc, started, stopped, ncalls, limit>>

\* lines 506-530: EncodingPreset(encoding_preset) raises ValueError when the
\* string is the value of no preset; then the first block under the lock
start_check(k) ==
  LET c == caller[k].camera_id IN
  /\ caller[k].pc = "start_check"
  /\ caller' =
       IF caller[k].encoding_preset \notin EncodingPreset
       THEN Return(k, "ValueError")
       ELSE IF recording_processes[c] # None THEN Return(k, "False")
       ELSE IF cameras[c] = "unknown" THEN Return(k, "False")
       ELSE IF cameras[c] = "nourl" THEN Return(k, "False")
       ELSE [caller EXCEPT ![k].pc = "start_launch"]
  /\ UNCHANGED <<cameras, host, registry, events, task, proc, started, stopped, ncalls, limit>>

\* the recorder thread as thread.start() leaves it
NewTask(c) ==
  [pc |-> "init", camera_id |-> c, encoding_preset |-> "copy",
   stop_event |-> None, process |-> None, wait_start |-> None,
   consecutive_failures |-> 0, retry_delay |-> 0, restarts_count |-> 0,
   errors_count |-> 0]

\* lines 541-545: the re-check under the second lock
AlreadyRecording(c) == recording_processes[c] # None

\* lines 547-552: a preset the host does not offer is replaced by COPY
Fallback(preset) ==
  IF preset \notin encoding_capabilities THEN "copy" ELSE preset

\* lines 541-578: the second block under the lock
start_launch(k) ==
  LET c == caller[k].camera_id
      t == Len(task) + 1 IN
  /\ caller[k].pc = "start_launch"
  /\ IF AlreadyRecording(c)
     THEN /\ caller' = Return(k, "False")
          /\ UNCHANGED <<registry, task, started, stopped>>
     ELSE /\ Len(task) < limit.tasks
          /\ stop_flags' = [stop_flags EXCEPT ![c] = t]
          /\ recording_threads' = [recording_threads EXCEPT ![c] = t]
          /\ task' = Append(task, [NewTask(c) EXCEPT !.encoding_preset =
                                     Fallback(caller[k].encoding_preset)])
          /\ caller' = Return(k, "True")
          /\ started' = [started EXCEPT ![c] = TRUE]
          /\ stopped' = [stopped EXCEPT ![c] = FALSE]
          /\ UNCHANGED <<recording_processes, recording_stats>>
  /\ UNCHANGED <<cameras, host, events, proc, ncalls, limit>>

\* --------------------------------------------------------- stop_recording
\* A caller enters stop_recording(c).  The history of the calls and of the
\* camera records that a stop has been called.
StopInvoke(k, c) ==
  /\ caller[k].pc \in {"idle", "returned"}
  /\ ncalls < limit.calls
  /\ ncalls' = ncalls + 1
  /\ caller' = [j \in Callers |->
       IF j = k
       THEN [pc |-> "stop_flag_test", op |-> "stop", camera_id |-> c,
             encoding_preset |-> "copy", wait_start |-> None,
             process |-> None, thread |-> None, result |-> "none",
             after_start |-> FALSE, saw_idle |-> FALSE,
             has_set |-> FALSE, live |-> FALSE]
       ELSE IF caller[j].camera_id = c
            THEN [caller[j] EXCEPT !.after_start = FALSE, !.saw_idle = FALSE]
            ELSE caller[j]]
  /\ started' = [started EXCEPT ![c] = FALSE]
  /\ UNCHANGED <<cameras, host, registry, events, task, proc, stopped, limit>>

\* line 583: if camera_id in self.stop_flags (no lock held)
stop_flag_test(k) ==
  LET c == caller[k].camera_id IN
  /\ caller[k].pc = "stop_flag_test"
  /\ caller' = [caller EXCEPT ![k].pc =
       IF stop_flags[c] # None THEN "stop_flag_set" ELSE "stop_lookup"]
  /\ UNCHANGED <<cameras, host, registry, events, task, proc, started, stopped, ncalls, limit>>

\* line 584: self.stop_flags[camera_id].set() (no lock held)
stop_flag_set(k) ==
  LET c == caller[k].camera_id IN
  /\ caller[k].pc = "stop_flag_set"
  /\ IF stop_flags[c] = None
     THEN /\ caller' = Return(k, "KeyError")
          /\ UNCHANGED events
     ELSE /\ events' = events \cup {stop_flags[c]}
          /\ caller' = [caller EXCEPT ![k].pc = "stop_lookup",
                                      ![k].has_set = ~IsSet(stop_flags[c])]
  /\ UNCHANGED <<cameras, host, registry, task, proc, started, stopped, ncalls, limit>>

\* lines 586-591: the registry lookup under the lock
stop_lookup(k) ==
  LET c == caller[k].camera_id IN
  /\ caller[k].pc = "stop_lookup"
  /\ caller' =
       IF recording_processes[c] = None THEN Return(k, "False")
       ELSE [caller EXCEPT ![k].pc = "stop_terminate", ![k].live = TRUE,
                           ![k].process = recording_processes[c]]
  /\ UNCHANGED <<cameras, host, registry, events, task, proc, started, stopped, ncalls, limit>>

\* line 593, _graceful_stop_ffmpeg lines 465-483: the process is asked to
\* end (terminate(), or on Windows a "q" on its stdin) and the wait starts
stop_terminate(k) ==
  /\ caller[k].pc = "stop_terminate"
  /\ proc' = Terminate(caller[k].process)
  /\ caller' = [caller EXCEPT ![k].pc = "stop_grace", ![k].wait_start = now]
  /\ UNCHANGED <<cameras, host, registry, events, task, started, stopped, ncalls, limit>>

\* _graceful_stop_ffmpeg lines 475 and 483: process.wait(timeout=5) on
\* Windows, process.wait(timeout=10) elsewhere
GracePeriod == IF platform = "Windows" THEN 5 ELSE 10

\* _graceful_stop_ffmpeg lines 475-491: the process exited within the grace
\* period, or the wait timed out and the process is killed
GraceEnds(p) ==
  \/ /\ proc[p].st = "exited"
     /\ UNCHANGED proc
  \/ /\ proc[p].st # "exited"
     /\ proc' = Kill(p)

stop_grace(k) ==
  /\ caller[k].pc = "stop_grace"
  /\ GraceEnds(caller[k].process)
  /\ caller' = [caller EXCEPT ![k].pc = "stop_thread_test",
                              ![k].wait_start = None]
  /\ UNCHANGED <<cameras, host, registry, events, task, started, stopped, ncalls, limit>>

\* lines 595-596: if camera_id in self.recording_threads: thread = ...
stop_thread_test(k) ==
  LET c == caller[k].camera_id IN
  /\ caller[k].pc = "stop_thread_test"
  /\ caller' =
       IF recording_threads[c] # None
       THEN [caller EXCEPT ![k].pc = "stop_join",
                           ![k].thread = recording_threads[c]]
       ELSE [caller EXCEPT ![k].pc = "stop_registry_del"]
  /\ UNCHANGED <<cameras, host, registry, events, task, proc, started, stopped, ncalls, limit>>

\* line 597: thread.join(timeout=10) returns when the thread has exited, or
\* after 10 s while it is still alive: in either case the caller goes on
stop_join(k) ==
  /\ caller[k].pc = "stop_join"
  /\ caller' = [caller EXCEPT ![k].pc = "stop_thread_del"]
  /\ UNCHANGED <<cameras, host, registry, events, task, proc, started, stopped, ncalls, limit>>

\* line 598: del self.recording_threads[camera_id] (no lock held)
stop_thread_del(k) ==
  LET c == caller[k].camera_id IN
  /\ caller[k].pc = "stop_thread_del"
  /\ IF recording_threads[c] = None
     THEN /\ caller' = Return(k, "KeyError")
          /\ UNCHANGED recording_threads
     ELSE /\ recording_threads' = [recording_threads EXCEPT ![c] = None]
          /\ caller' = [caller EXCEPT ![k].pc = "stop_registry_del"]
  /\ UNCHANGED <<cameras, host, recording_processes, recording_stats, stop_flags,
                 events, task, proc, started, stopped, ncalls, limit>>

\* lines 600-602: the registry entry is removed under the lock
stop_registry_del(k) ==
  LET c == caller[k].camera_id IN
  /\ caller[k].pc = "stop_registry_del"
  /\ recording_processes' = [recording_processes EXCEPT ![c] = None]
  /\ caller' = [caller EXCEPT ![k].pc = "stop_flag_test2"]
  /\ UNCHANGED <<cameras, host, recording_threads, recording_stats, stop_flags,
                 events, task, proc, started, stopped, ncalls, limit>>

\* line 604: if camera_id in self.stop_flags (no lock held); line 608
stop_flag_test2(k) ==
  LET c == caller[k].camera_id IN
  /\ caller[k].pc = "stop_flag_test2"
  /\ IF stop_flags[c] # None
     THEN /\ caller' = [caller EXCEPT ![k].pc = "stop_flag_del"]
          /\ UNCHANGED stopped
     ELSE /\ caller' = Return(k, "True")
          /\ stopped' = [stopped EXCEPT ![c] = TRUE]
  /\ UNCHANGED <<cameras, host, registry, events, task, proc, started, ncalls, limit>>

\* mutant of stop_flag_del: the stop flags of all the cameras are cleared
stop_flag_clear(k) ==
  LET c == caller[k].camera_id IN
  /\ caller[k].pc = "stop_flag_del"
  /\ IF stop_flags[c] = None
     THEN /\ caller' = Return(k, "KeyError")
          /\ UNCHANGED <<stop_flags, stopped>>
     ELSE /\ stop_flags' = [d \in CameraIds |-> None]
          /\ caller' = Return(k, "True")
          /\ stopped' = [stopped EXCEPT ![c] = TRUE]
  /\ UNCHANGED <<cameras, host, recording_processes, recording_threads,
                 recording_stats, events, task, proc, started, ncalls, limit>>

\* line 605: del self.stop_flags[camera_id] (no lock held); line 608
stop_flag_del(k) ==
  LET c == caller[k].camera_id IN
  /\ caller[k].pc = "stop_flag_del"
  /\ IF stop_flags[c] = None
     THEN /\ caller' = Return(k, "KeyError")
          /\ UNCHANGED <<stop_flags, stopped>>
     ELSE /\ stop_flags' = [stop_flags EXCEPT ![c] = None]
          /\ caller' = Return(k, "True")
          /\ stopped' = [stopped EXCEPT ![c] = TRUE]
  /\ UNCHANGED <<cameras, host, recording_processes, recording_threads,
                 recording_stats, events, task, proc, started, ncalls, limit>>

\* ----------------------------------------------------- record_rtsp_stream
\* mutant of RetryDelay: the ceiling of 300 s is forgotten
RetryDelayNoCeiling(failures) ==
  IF failures >= FFMPEG_MAX_FAILURES
  THEN FFMPEG_RECONNECT_DELAY * Pow2(Min(failures, MAX_BACKOFF_EXPONENT))
  ELSE FFMPEG_RECONNECT_DELAY

\* mutant of RetryDelay: the threshold is compared with > instead of >=
RetryDelayLateThreshold(failures) ==
  IF failures > FFMPEG_MAX_FAILURES
  THEN Min(FFMPEG_RECONNECT_DELAY * Pow2(Min(failures, MAX_BACKOFF_EXPONENT)),
           MAX_RETRY_DELAY)
  ELSE FFMPEG_RECONNECT_DELAY

\* lines 306-313: the retry delay of this iteration
RetryDelay(failures) ==
  IF failures >= FFMPEG_MAX_FAILURES
  THEN Min(FFMPEG_RECONNECT_DELAY * Pow2(Min(failures, MAX_BACKOFF_EXPONENT)),
           MAX_RETRY_DELAY)
  ELSE FFMPEG_RECONNECT_DELAY

\* line 418: the consecutive-failure counter after an exit with return_code
AfterExit(failures, return_code) ==
  IF return_code # 0 THEN Inc(failures) ELSE 0

\* mutant of LoopRuns: the loop tests the registered Event of the camera,
\* not the Event the thread holds
LoopRunsOnRegisteredFlag(t) == ~IsSet(stop_flags[task[t].camera_id])

\* line 304: while not stop_event.is_set()
LoopRuns(t) == ~IsSet(task[t].stop_event)

\* line 389: the monitoring loop ends
MonitorEnds(t) == IsSet(task[t].stop_event) \/ ~Running(task[t].process)

\* line 394: if stop_event.is_set()
StopRequested(t) == IsSet(task[t].stop_event)

\* lines 291-302: the thread publishes its stats and fetches its stop event,
\* self.stop_flags.get(camera_id, Event())
record_init(t) ==
  LET c == task[t].camera_id IN
  /\ task[t].pc = "init"
  /\ recording_stats' = [recording_stats EXCEPT ![c] = t]
  /\ task' = [task EXCEPT ![t].pc = "loop", ![t].stop_event = stop_flags[c]]
  /\ UNCHANGED <<cameras, host, recording_processes, recording_threads, stop_flags,
                 events, proc, caller, started, stopped, ncalls, limit>>

\* lines 304-313: the loop test, then the retry delay
record_loop(t) ==
  /\ task[t].pc = "loop"
  /\ task' =
       IF LoopRuns(t)
       THEN [task EXCEPT ![t].pc = "launch",
               ![t].retry_delay = RetryDelay(task[t].consecutive_failures)]
       ELSE [task EXCEPT ![t].pc = "cleanup"]
  /\ UNCHANGED <<cameras, host, registry, events, proc, caller, started, stopped, ncalls, limit>>

\* The Popen object the thread drops when it rebinds `process` (line 378):
\* once neither the registry nor a caller holds it, nothing can read its
\* return code again and it is kept in one canonical form.
Collect(t) ==
  LET old == task[t].process IN
  IF /\ old # None
     /\ \A c \in CameraIds :
          recording_processes[c] = old => c = task[t].camera_id
     /\ \A k \in Callers : caller[k].process # old
     /\ \A u \in Tasks : task[u].process = old => u = t
  THEN [proc EXCEPT ![old] = [@ EXCEPT !.rc = 0, !.killed = FALSE]]
  ELSE proc

\* mutant of record_launch: a launch that raises is not counted as a failure
record_launch_fault_uncounted(t) ==
  LET c == task[t].camera_id
      p == Len(proc) + 1 IN
  /\ task[t].pc = "launch"
  /\ \/ /\ Len(proc) < limit.procs
        /\ proc' = Append(Collect(t), NewProc(c))
        /\ recording_processes' = [recording_processes EXCEPT ![c] = p]
        /\ task' = [task EXCEPT ![t].pc = "monitor", ![t].process = p]
     \/ /\ task' = [task EXCEPT ![t].pc = "exc_wait",
             ![t].errors_count = Inc(task[t].errors_count)]
        /\ UNCHANGED <<proc, recording_processes>>
  /\ UNCHANGED <<cameras, host, recording_threads, recording_stats, stop_flags,
                 events, caller, started, stopped, ncalls, limit>>

\* lines 315-386: the command is built and the encoder launched and
\* registered; or the launch raises, lines 423-427
record_launch(t) ==
  LET c == task[t].camera_id
      p == Len(proc) + 1 IN
  /\ task[t].pc = "launch"
  /\ \/ /\ Len(proc) < limit.procs
        /\ proc' = Append(Collect(t), NewProc(c))
        /\ recording_processes' = [recording_processes EXCEPT ![c] = p]
        /\ task' = [task EXCEPT ![t].pc = "monitor", ![t].process = p]
     \/ /\ task' = [task EXCEPT ![t].pc = "exc_wait",
             ![t].consecutive_failures = Inc(task[t].consecutive_failures),
             ![t].errors_count = Inc(task[t].errors_count)]
        /\ UNCHANGED <<proc, recording_processes>>
  /\ UNCHANGED <<cameras, host, recording_threads, recording_stats, stop_flags,
                 events, caller, started, stopped, ncalls, limit>>

\* lines 389-391: the monitoring loop polls until a stop request or the exit
record_monitor(t) ==
  /\ task[t].pc = "monitor"
  /\ MonitorEnds(t)
  /\ task' = [task EXCEPT ![t].pc = "check"]
  /\ UNCHANGED <<cameras, host, registry, events, proc, caller, started, stopped, ncalls, limit>>

\* lines 394-418: a stop request leads to the graceful stop; an unrequested
\* exit updates the counters
record_check(t) ==
  /\ task[t].pc = "check"
  /\ task' =
       IF StopRequested(t)
       THEN [task EXCEPT ![t].pc = "terminate"]
       ELSE [task EXCEPT ![t].pc = "wait",
               ![t].restarts_count = task[t].restarts_count + 1,
               ![t].consecutive_failures =
                  AfterExit(task[t].consecutive_failures,
                            proc[task[t].process].rc)]
  /\ UNCHANGED <<cameras, host, registry, events, proc, caller, started, stopped, ncalls, limit>>

\* line 396, _graceful_stop_ffmpeg lines 465-483
record_terminate(t) ==
  /\ task[t].pc = "terminate"
  /\ proc' = Terminate(task[t].process)
  /\ task' = [task EXCEPT ![t].pc = "grace", ![t].wait_start = now]
  /\ UNCHANGED <<cameras, host, registry, events, caller, started, stopped, ncalls, limit>>

\* _graceful_stop_ffmpeg lines 483-491, then the break of line 397
record_grace(t) ==
  /\ task[t].pc = "grace"
  /\ GraceEnds(task[t].process)
  /\ task' = [task EXCEPT ![t].pc = "cleanup", ![t].wait_start = None]
  /\ UNCHANGED <<cameras, host, registry, events, caller, started, stopped, ncalls, limit>>

\* lines 420-421 and 429-430: stop_event.wait(timeout=retry_delay) ends, by
\* the timeout or by the event
record_wait(t) ==
  /\ task[t].pc \in {"wait", "exc_wait"}
  /\ task' = [task EXCEPT ![t].pc = "loop"]
  /\ UNCHANGED <<cameras, host, registry, events, proc, caller, started, stopped, ncalls, limit>>

\* lines 432-437: the registry entry of the camera is removed under the lock
\* and the function returns: its local variables are gone
record_cleanup(t) ==
  LET c == task[t].camera_id IN
  /\ task[t].pc = "cleanup"
  /\ recording_processes' = [recording_processes EXCEPT ![c] = None]
  /\ task' = [task EXCEPT ![t].pc = "done", ![t].process = None,
                           ![t].consecutive_failures = 0,
                           ![t].retry_delay = 0]
  /\ UNCHANGED <<cameras, host, recording_threads, recording_stats, stop_flags,
                 events, proc, caller, started, stopped, ncalls, limit>>

record_rtsp_stream(t) ==
  \/ record_init(t)
  \/ record_loop(t)
  \/ record_launch(t)
  \/ record_monitor(t)
  \/ record_check(t)
  \/ record_terminate(t)
  \/ record_grace(t)
  \/ record_wait(t)
  \/ record_cleanup(t)

start_recording(k) == start_check(k) \/ start_launch(k)

stop_recording(k) ==
  \/ stop_flag_test(k)
  \/ stop_flag_set(k)
  \/ stop_lookup(k)
  \/ stop_terminate(k)
  \/ stop_grace(k)
  \/ stop_thread_test(k)
  \/ stop_join(k)
  \/ stop_thread_del(k)
  \/ stop_registry_del(k)
  \/ stop_flag_test2(k)
  \/ stop_flag_del(k)

\* ---------------------------------------------------------------- callers
\* app.py routes: the operator starts or stops any camera id
OperatorCall(c) ==
  \/ StartInvoke("operator", c)
  \/ StopInvoke("operator", c)

\* _schedule_checker lines 185-210 for one automatic camera: is_night comes
\* from the clock, is_recording from get_recording_status()
SchedulerTick(c) ==
  \E is_night \in BOOLEAN :
    LET is_recording == c \in get_recording_status IN
    \/ /\ is_night /\ ~is_recording
       /\ StartInvoke("scheduler", c)
    \/ /\ ~is_night /\ is_recording
       /\ StopInvoke("scheduler", c)

Next ==
  \/ (\E c \in CameraIds : OperatorCall(c)) /\ UNCHANGED <<svars, fvars>>
  \/ SchedulerTick("cam1") /\ UNCHANGED <<svars, fvars>>
  \/ (\E k \in Callers : start_recording(k)) /\ UNCHANGED <<svars, fvars>>
  \/ (\E k \in Callers : stop_recording(k)) /\ UNCHANGED <<svars, fvars>>
  \/ (\E t \in Tasks : record_rtsp_stream(t)) /\ UNCHANGED <<svars, fvars>>
  \/ (\E p \in Procs : ProcExit(p)) /\ UNCHANGED <<svars, fvars>>

Spec == Init /\ [][Next]_vars

\* One operator and one camera, two calls, and a long series of encoder
\* launches: the supervised loop with its backoff and its cancellation.
NextLoop ==
  \/ OperatorCall("cam1") /\ UNCHANGED <<svars, fvars>>
  \/ start_recording("operator") /\ UNCHANGED <<svars, fvars>>
  \/ stop_recording("operator") /\ UNCHANGED <<svars, fvars>>
  \/ (\E t \in Tasks : record_rtsp_stream(t)) /\ UNCHANGED <<svars, fvars>>
  \/ (\E p \in Procs : ProcExit(p)) /\ UNCHANGED <<svars, fvars>>

SpecLoop == InitLoop /\ [][NextLoop]_vars

\* Every recorder thread is a thread of its own and keeps being scheduled.
SpecLoopFair ==
  /\ SpecLoop
  /\ \A t \in 1..MaxTasks : 
       WF_vars(/\ t \in Tasks
               /\ record_rtsp_stream(t)
               /\ UNCHANGED <<svars, fvars>>)

\* ============================================================ scheduler
\* RecordingScheduler (src/recording_scheduler.py).  Its thread runs
\* _schedule_checker; its calls of the recorder are the calls of the caller
\* "scheduler".  The operator surface runs in other threads: the routes of
\* app.py, and the hooks mark_manual_stop and clear_manual_stop.  The clock
\* is read at multiples of the tick period, and a run stays within one
\* calendar day, so that the cache of sun times is never invalidated.

\* self.cameras.items(): the configured cameras in the order of the file
CameraOrder == <<"cam2", "cam1">>

\* what suntime may compute for today, as local times of the clock
SunTimes ==
  { [sunrise_today |-> 120, sunset_today |-> 300],
    [sunrise_today |-> 180, sunset_today |-> 240] }

\* mutant of is_night_time: the instant of sunset still counts as day
is_night_time_after_sunset(now_local, sun_times) ==
  IF now_local < sun_times.sunrise_today THEN TRUE
  ELSE IF now_local > sun_times.sunset_today THEN TRUE
  ELSE FALSE

\* _is_night_time lines 93-126: the three cases
is_night_time(now_local, sun_times) ==
  IF now_local < sun_times.sunrise_today THEN TRUE
  ELSE IF now_local >= sun_times.sunset_today THEN TRUE
  ELSE FALSE

\* _get_sun_times as called by _is_night_time: the cached times of today,
\* or what suntime computes: times, a SunTimeException, or another error
get_sun_times(c) ==
  IF sun_times_cache[c] # NoSunTimes
  THEN {[kind |-> "ok", times |-> sun_times_cache[c]]}
  ELSE {[kind |-> "ok", times |-> st] : st \in SunTimes}
       \cup {[kind |-> "SunTimeException", times |-> NoSunTimes],
             [kind |-> "Exception", times |-> NoSunTimes]}

\* an exception escapes _schedule_checker: the thread is gone
Die(err) == [IdleScheduler EXCEPT !.pc = "dead", !.error = err,
                                  !.stop_event = sched.stop_event,
                                  !.starts = sched.starts,
                                  !.joining = sched.joining]

\* the for loop goes on with the next camera
NextCamera ==
  [sched EXCEPT !.pc = "camera", !.idx = sched.idx + 1, !.outcome = "none",
                !.is_night = FALSE, !.at = None]

\* the history forgets a stop of the operator once the cooldown is over
Forget(stop_time, time) ==
  IF stop_time # None /\ time - stop_time >= manual_stop_cooldown
  THEN None ELSE stop_time

\* Time passes.  A tick takes less than one period of the clock (the
\* longest call, stop_recording, returns within 25 s), and the wait of line
\* 219 ends when it is due: the clock moves while the scheduler thread does
\* not run, or waits for a time that has not come.
Advance ==
  /\ now < limit.clock * TICK_PERIOD
  /\ \/ sched.pc \in {"none", "exited", "dead"}
     \/ sched.pc = "wait" /\ now < sched.wake
  /\ now' = now + TICK_PERIOD
  /\ human_stop' = [c \in CameraIds |-> Forget(human_stop[c], now')]
  /\ UNCHANGED <<details, sched, manual_stops, sun_times_cache>>
  /\ UNCHANGED <<rvars, fvars>>

\* start(), lines 272-283: a new thread unless the last one is alive
scheduler_start ==
  /\ sched.pc \in {"none", "exited", "dead"}
  /\ sched.starts < MaxSchedStarts
  /\ sched' = [IdleScheduler EXCEPT !.pc = "init", !.idx = 1,
                                    !.starts = sched.starts + 1]
  /\ UNCHANGED <<now, details, manual_stops, sun_times_cache, human_stop>>
  /\ UNCHANGED <<rvars, fvars>>

\* start(), lines 272-283, called by the thread that called stop(): line
\* 274 tests the last thread; when it is alive nothing is done, and the
\* event is cleared (line 275) only when a new thread is made.  starts
\* counts the calls.
scheduler_restart ==
  /\ ~sched.joining
  /\ sched.starts < MaxRestarts
  /\ sched' = IF sched.pc \in {"none", "exited", "dead"}
              THEN [IdleScheduler EXCEPT !.pc = "init", !.idx = 1,
                                         !.starts = sched.starts + 1]
              ELSE [sched EXCEPT !.starts = sched.starts + 1]
  /\ UNCHANGED <<now, details, manual_stops, sun_times_cache, human_stop>>
  /\ UNCHANGED <<rvars, fvars>>

\* stop(), lines 286-288: the event is set and the thread is joined
scheduler_stop_set ==
  /\ sched.pc # "none"
  /\ ~sched.stop_event
  /\ ~sched.joining
  /\ sched' = [sched EXCEPT !.stop_event = TRUE, !.joining = TRUE]
  /\ UNCHANGED <<now, details, manual_stops, sun_times_cache, human_stop>>
  /\ UNCHANGED <<rvars, fvars>>

\* the thread of the scheduler is inside a call of stop_recording that
\* waits for the encoder (recorder.py line 483, 10 s) or joins the thread of
\* the job (line 597, 10 s)
Blocked ==
  /\ sched.pc = "call"
  /\ caller["scheduler"].pc \in {"stop_grace", "stop_join"}

\* stop(), lines 288-289: join(timeout=5) returns when the thread has
\* ended, or after 5 s when the thread is still inside a call that blocks
\* for longer
scheduler_join ==
  /\ sched.joining
  /\ sched.pc \in {"exited", "dead"} \/ Blocked
  /\ sched' = [sched EXCEPT !.joining = FALSE]
  /\ UNCHANGED <<now, details, manual_stops, sun_times_cache, human_stop>>
  /\ UNCHANGED <<rvars, fvars>>

\* stop(), lines 284-289: the event is set; the join returns in any case
scheduler_stop ==
  /\ sched.pc # "none"
  /\ ~sched.stop_event
  /\ sched' = [sched EXCEPT !.stop_event = TRUE]
  /\ UNCHANGED <<now, details, manual_stops, sun_times_cache, human_stop>>
  /\ UNCHANGED <<rvars, fvars>>

\* mark_manual_stop, lines 221-227; a camera is marked again only when its
\* override is gone
mark_manual_stop(c) ==
  /\ manual_stops[c] = None
  /\ manual_stops' = [manual_stops EXCEPT ![c] = now]
  /\ UNCHANGED <<now, details, sched, sun_times_cache, human_stop>>
  /\ UNCHANGED <<rvars, fvars>>

\* clear_manual_stop, lines 229-233
clear_manual_stop(c) ==
  /\ manual_stops[c] # None
  /\ manual_stops' = [manual_stops EXCEPT ![c] = None]
  /\ UNCHANGED <<now, details, sched, sun_times_cache, human_stop>>
  /\ UNCHANGED <<rvars, fvars>>

\* lines 140-151: the status of one camera is logged when the thread starts;
\* the call of _is_night_time is in no try block
schedule_init ==
  /\ sched.pc = "init"
  /\ IF sched.idx > Len(CameraOrder)
     THEN /\ sched' = [sched EXCEPT !.pc = "while", !.idx = 0]
          /\ UNCHANGED sun_times_cache
     ELSE LET c == CameraOrder[sched.idx] IN
          IF details[c] # "auto"
          THEN /\ sched' = [sched EXCEPT !.idx = sched.idx + 1]
               /\ UNCHANGED sun_times_cache
          ELSE \E r \in get_sun_times(c) :
                 /\ sched' = IF r.kind = "Exception" THEN Die("Exception")
                             ELSE [sched EXCEPT !.idx = sched.idx + 1]
                 /\ sun_times_cache' =
                      IF r.kind = "ok"
                      THEN [sun_times_cache EXCEPT ![c] = r.times]
                      ELSE sun_times_cache
  /\ UNCHANGED <<now, details, manual_stops, human_stop>>
  /\ UNCHANGED <<rvars, fvars>>

\* lines 153-154: the loop test, then the time of the tick
schedule_while ==
  /\ sched.pc = "while"
  /\ sched' = IF sched.stop_event
              THEN [IdleScheduler EXCEPT !.pc = "exited", !.stop_event = TRUE,
                                         !.starts = sched.starts,
                                         !.joining = sched.joining]
              ELSE [sched EXCEPT !.pc = "camera", !.idx = 1,
                                 !.now_local = now]
  /\ UNCHANGED <<now, details, manual_stops, sun_times_cache, human_stop>>
  /\ UNCHANGED <<rvars, fvars>>

\* lines 156-172: the next camera of the tick; cameras that are not operated
\* automatically or have no coordinates are skipped; line 172 tests the
\* override; after the last camera, line 219 starts the wait
schedule_camera ==
  /\ sched.pc = "camera"
  /\ sched' =
       IF sched.idx > Len(CameraOrder)
       THEN [sched EXCEPT !.pc = "wait", !.idx = 0, !.now_local = None,
                          !.wake = now + TICK_PERIOD]
       ELSE LET c == CameraOrder[sched.idx] IN
            IF details[c] # "auto"
            THEN [sched EXCEPT !.idx = sched.idx + 1]
            ELSE IF manual_stops[c] # None
            THEN [sched EXCEPT !.pc = "cooldown"]
            ELSE [sched EXCEPT !.pc = "eval"]
  /\ UNCHANGED <<now, details, manual_stops, sun_times_cache, human_stop>>
  /\ UNCHANGED <<rvars, fvars>>

\* mutant of InCooldown: the cooldown lasts one second longer
InCooldownInclusive(now_local, stop_time) ==
  now_local - stop_time <= manual_stop_cooldown

\* lines 173-174: time_since_stop < self.manual_stop_cooldown
InCooldown(now_local, stop_time) ==
  now_local - stop_time < manual_stop_cooldown

\* lines 173-179: the timestamp of the override is read (KeyError when it
\* was cleared since line 172); within the cooldown the camera is skipped
schedule_cooldown ==
  LET c == CameraOrder[sched.idx] IN
  /\ sched.pc = "cooldown"
  /\ sched' =
       IF manual_stops[c] = None THEN Die("KeyError")
       ELSE IF InCooldown(sched.now_local, manual_stops[c]) THEN NextCamera
       ELSE [sched EXCEPT !.pc = "expired"]
  /\ UNCHANGED <<now, details, manual_stops, sun_times_cache, human_stop>>
  /\ UNCHANGED <<rvars, fvars>>

\* line 182: del self.manual_stops[camera_id] (KeyError when it was cleared
\* since line 173)
schedule_expired ==
  LET c == CameraOrder[sched.idx] IN
  /\ sched.pc = "expired"
  /\ IF manual_stops[c] = None
     THEN /\ sched' = Die("KeyError")
          /\ UNCHANGED manual_stops
     ELSE /\ sched' = [sched EXCEPT !.pc = "eval"]
          /\ manual_stops' = [manual_stops EXCEPT ![c] = None]
  /\ UNCHANGED <<now, details, sun_times_cache, human_stop>>
  /\ UNCHANGED <<rvars, fvars>>

\* mutant of Decision: a recording camera is stopped by day and by night
DecisionStopsAtNight(is_night, is_recording) ==
  IF is_night /\ ~is_recording THEN "start"
  ELSE IF is_recording THEN "stop"
  ELSE "none"

\* lines 192-210: the call a tick makes for a camera
Decision(is_night, is_recording) ==
  IF is_night /\ ~is_recording THEN "start"
  ELSE IF ~is_night /\ is_recording THEN "stop"
  ELSE "none"

\* lines 185-216: day or night, the status of the camera, and the call of
\* the recorder.  A SunTimeException leaves is_night False (line 131); any
\* other exception is caught at line 212.
schedule_eval ==
  LET c == CameraOrder[sched.idx] IN
  /\ sched.pc = "eval"
  /\ \E r \in get_sun_times(c) :
       LET is_night == IF r.kind = "ok" THEN is_night_time(now, r.times)
                       ELSE FALSE
           is_recording == c \in get_recording_status
           evaluated == [sched EXCEPT !.pc = "call", !.outcome = r.kind,
                                      !.is_night = is_night, !.at = now]
       IN
       /\ sun_times_cache' =
            IF r.kind = "ok" THEN [sun_times_cache EXCEPT ![c] = r.times]
            ELSE sun_times_cache
       /\ sched' = evaluated
       /\ IF r.kind = "Exception" THEN UNCHANGED rvars
          ELSE IF Decision(is_night, is_recording) = "start"
          THEN StartInvoke("scheduler", c)
          ELSE IF Decision(is_night, is_recording) = "stop"
          THEN StopInvoke("scheduler", c)
          ELSE UNCHANGED rvars
  /\ UNCHANGED <<now, details, manual_stops, human_stop>>
  /\ UNCHANGED fvars

\* lines 200, 210, 212: the call of the recorder has returned, or raised an
\* exception that line 212 catches; the for loop goes on
schedule_continue ==
  /\ sched.pc = "call"
  /\ caller["scheduler"].pc \in {"idle", "returned"}
  /\ sched' = NextCamera
  /\ UNCHANGED <<now, details, manual_stops, sun_times_cache, human_stop>>
  /\ UNCHANGED <<rvars, fvars>>

\* line 219: self.stop_event.wait(60) ends, by the timeout or by the event
schedule_wait ==
  /\ sched.pc = "wait"
  /\ sched.stop_event \/ now >= sched.wake
  /\ sched' = [sched EXCEPT !.pc = "while", !.wake = None]
  /\ UNCHANGED <<now, details, manual_stops, sun_times_cache, human_stop>>
  /\ UNCHANGED <<rvars, fvars>>

schedule_checker ==
  \/ schedule_init
  \/ schedule_while
  \/ schedule_camera
  \/ schedule_cooldown
  \/ schedule_expired
  \/ schedule_eval
  \/ schedule_continue
  \/ schedule_wait

\* app.py lines 96-106: the stop route of the operator surface; the history
\* records when a stop of the operator returned True
OperatorStops ==
  /\ stop_recording("operator")
  /\ human_stop' =
       IF caller'["operator"].pc = "returned"
          /\ caller'["operator"].result = "True"
       THEN [human_stop EXCEPT ![caller["operator"].camera_id] = now]
       ELSE human_stop
  /\ UNCHANGED <<now, details, sched, manual_stops, sun_times_cache>>
  /\ UNCHANGED fvars

\* the second camera is operated automatically and has coordinates or none
InitDetails ==
  details \in {[AutoDetails EXCEPT !["cam2"] = d] : d \in {"auto", "nocoords"}}

\* The scheduler runs: the scheduler with its hooks, called by an operator
\* surface that leaves the recorder alone; one recorder thread and one
\* encoder, which exits only when it is stopped.
InitSched ==
  /\ InitRegistry
  /\ InitScheduler
  /\ InitDetails
  /\ InitStorage
  /\ limit = [calls |-> MaxSchedCalls, tasks |-> 1, procs |-> 1,
              fails |-> 0, clock |-> MaxClock]

NextSched ==
  \/ (\E k \in Callers : start_recording(k)) /\ UNCHANGED <<svars, fvars>>
  \/ stop_recording("scheduler") /\ UNCHANGED <<svars, fvars>>
  \/ (\E t \in Tasks : record_rtsp_stream(t)) /\ UNCHANGED <<svars, fvars>>
  \/ Advance
  \/ scheduler_start
  \/ scheduler_stop
  \/ mark_manual_stop("cam1")
  \/ clear_manual_stop("cam1")
  \/ schedule_checker

SpecSched == InitSched /\ [][NextSched]_vars

\* The application runs: the scheduler as app.py starts it (lines 449-450)
\* and the routes of the operator surface, which call the recorder and
\* never the hooks of the scheduler: no camera carries an override, and
\* the tick never reaches lines 173-183.
InitApp ==
  /\ InitRegistry
  /\ InitScheduler
  /\ InitDetails
  /\ InitStorage
  /\ limit = [calls |-> MaxAppCalls, tasks |-> 1, procs |-> 1,
              fails |-> 0, clock |-> MaxAppClock]

NextApp ==
  \/ OperatorCall("cam1") /\ UNCHANGED <<svars, fvars>>
  \/ (\E k \in Callers : start_recording(k)) /\ UNCHANGED <<svars, fvars>>
  \/ OperatorStops
  \/ stop_recording("scheduler") /\ UNCHANGED <<svars, fvars>>
  \/ (\E t \in Tasks : record_rtsp_stream(t)) /\ UNCHANGED <<svars, fvars>>
  \/ Advance
  \/ scheduler_start
  \/ schedule_init
  \/ schedule_while
  \/ schedule_camera
  \/ schedule_eval
  \/ schedule_continue
  \/ schedule_wait

SpecApp == InitApp /\ [][NextApp]_vars

\* The scheduler restart runs: the scheduler stopped and started again by one
\* controlling thread, while its ticks start and stop the recording of the
\* cameras; no camera carries an override.
InitRestart ==
  /\ InitRegistry
  /\ InitScheduler
  /\ InitDetails
  /\ InitStorage
  /\ limit = [calls |-> MaxRestartCalls, tasks |-> 1, procs |-> 1,
              fails |-> 0, clock |-> MaxRestartClock]

NextRestart ==
  \/ (\E k \in Callers : start_recording(k)) /\ UNCHANGED <<svars, fvars>>
  \/ stop_recording("scheduler") /\ UNCHANGED <<svars, fvars>>
  \/ (\E t \in Tasks : record_rtsp_stream(t)) /\ UNCHANGED <<svars, fvars>>
  \/ Advance
  \/ scheduler_restart
  \/ scheduler_stop_set
  \/ scheduler_join
  \/ schedule_init
  \/ schedule_while
  \/ schedule_camera
  \/ schedule_eval
  \/ schedule_continue
  \/ schedule_wait

SpecRestart == InitRestart /\ [][NextRestart]_vars

\* ============================================================== storage
\* StorageManager.clear_old_recordings (src/storage.py): the retention sweep
\* over the files of the camera directories.  Time is counted in half days.
\* A file name is what the recorder or somebody else wrote: the name of a
\* recording, f"{camera_id}_{start_time}_%03d.mp4" (recorder.py line 368)
\* with start_time a date and a time of day, or some other text.

\* one day of the clock of the files
DAY == 2

\* the words of a text between its underscores
Word == [kind |-> "word", val |-> 0]
Words(n) == [i \in 1..n |-> Word]

\* the name of a segment recorded for a camera id of n words
RecordingName(n, d, t) ==
  [text |-> "", camera_id |-> Words(n), date |-> d, time |-> t]

\* the name of any other file, as its text and the number of its words
OtherName(text, n) ==
  [text |-> text, camera_id |-> Words(n), date |-> None, time |-> None]

\* filename.split('_')
Split(name) ==
  IF name.text = ""
  THEN name.camera_id \o <<[kind |-> "date", val |-> name.date],
                           [kind |-> "time", val |-> name.time], Word>>
  ELSE name.camera_id

\* parse_filename_date, lines 103-113: strptime of parts[1] and parts[2]
\* succeeds when they are a date and a time of day
parse_filename_date(name) ==
  LET parts == Split(name) IN
  IF /\ Len(parts) >= 3
     /\ parts[2].kind = "date"
     /\ parts[3].kind = "time"
  THEN parts[2].val * DAY + parts[3].val
  ELSE None

\* lines 140-144: the date of the name, or else the modification time
file_date(f) ==
  IF parse_filename_date(f.name) # None THEN parse_filename_date(f.name)
  ELSE f.mtime

\* line 133: the sidecar log
IsSidecar(f) == f.name.text = "ffmpeg_log.txt"

\* the dates and times of day of the names, and the clock of a sweep
Dates == 1..MaxDay
Times == 0..(DAY - 1)
Clock == DAY..((MaxDay + 1) * DAY)

\* The camera directories hold a segment of camera "cam1", a segment of
\* camera "front_door", the sidecar log, and a file with another name; a
\* segment was last written when it was started or one clock unit later.
FileSets ==
  { { [id |-> 1, name |-> RecordingName(1, d1, t1), mtime |-> d1 * DAY + t1 + w1],
      [id |-> 2, name |-> RecordingName(2, d2, t2), mtime |-> d2 * DAY + t2 + w2],
      [id |-> 3, name |-> OtherName("ffmpeg_log.txt", 2), mtime |-> DAY],
      [id |-> 4, name |-> OtherName("notes.txt", 1), mtime |-> d1 * DAY] } :
    d1 \in Dates, t1 \in Times, w1 \in {0, 1},
    d2 \in Dates, t2 \in Times, w2 \in {0, 1} }

\* lines 115-125: a sweep is asked for, with a window of days; the cutoff
sweep_start ==
  /\ sweep.pc \in {"idle", "done", "raised"}
  /\ \E days \in {0, 1} :
       sweep' = [pc |-> "scan", op |-> "clear_old_recordings",
                 cutoff_date |-> now - days * DAY,
                 todo |-> files, listed |-> files, removed |-> {},
                 errors |-> {}, failed |-> {}, entries |-> {},
                 current_size |-> 0, aborted |-> FALSE,
                 remove_after |-> FALSE]
  /\ UNCHANGED files
  /\ UNCHANGED <<rvars, svars>>

\* line 144: the modification time is read, with a stat() of the file, when
\* the name of the file gives no date
NeedsStat(f) == parse_filename_date(f.name) = None

\* lines 132-159: the next file of a camera directory; the sidecar is
\* skipped; a file dated before the cutoff is removed, or its removal fails
\* and is reported; the stat() of line 144 is inside the outer try only, and
\* when it raises the loop over the files is left (lines 157-159)
sweep_file ==
  /\ sweep.pc = "scan"
  /\ \E f \in sweep.todo :
       \/ /\ IsSidecar(f) \/ ~(file_date(f) < sweep.cutoff_date)
          /\ sweep' = [sweep EXCEPT !.todo = @ \ {f}]
          /\ UNCHANGED files
       \/ /\ ~IsSidecar(f) /\ file_date(f) < sweep.cutoff_date
          /\ \/ /\ files' = files \ {f}
                /\ sweep' = [sweep EXCEPT !.todo = @ \ {f},
                                          !.removed = @ \cup {f}]
             \/ /\ sweep' = [sweep EXCEPT !.todo = @ \ {f},
                                          !.errors = @ \cup {f}]
                /\ UNCHANGED files
       \/ /\ ~IsSidecar(f) /\ NeedsStat(f)
          /\ sweep' = [sweep EXCEPT !.pc = "done", !.aborted = TRUE,
                                    !.errors = @ \cup {f}]
          /\ UNCHANGED files
  /\ UNCHANGED <<rvars, svars>>

\* lines 161-168: the result is returned
sweep_end ==
  /\ sweep.pc = "scan"
  /\ sweep.todo = {}
  /\ sweep' = [sweep EXCEPT !.pc = "done"]
  /\ UNCHANGED files
  /\ UNCHANGED <<rvars, svars>>

clear_old_recordings ==
  \/ sweep_start
  \/ sweep_file
  \/ sweep_end

\* the retention runs: the sweeps of a tree of files, nothing else running
InitSweep ==
  /\ InitRegistry
  /\ now \in Clock
  /\ sched = IdleScheduler
  /\ manual_stops = [c \in CameraIds |-> None]
  /\ sun_times_cache = [c \in CameraIds |-> NoSunTimes]
  /\ human_stop = [c \in CameraIds |-> None]
  /\ details = AutoDetails
  /\ files \in FileSets
  /\ sweep = IdleSweep
  /\ limit = [calls |-> 0, tasks |-> 0, procs |-> 0, fails |-> 0,
              clock |-> 0]

NextSweep == clear_old_recordings

SpecSweep == InitSweep /\ [][NextSweep]_vars

\* ------------------------------------------------ clear_by_storage_limit
\* Sizes are counted in tenths of the smallest quota of the settings.
\* line 172: max_storage, the quota
max_storage == 10

\* line 173: target_size = int(max_storage * 0.8)
target_size == (max_storage * 8) \div 10

\* mutant of AboveWarning: the usage is compared with the target of 80%
AboveWarningAtTarget(current_size) == current_size > target_size

\* line 177, negated: current_size > max_storage * self.warning_threshold,
\* the threshold being 0.9 (line 24)
AboveWarning(current_size) == current_size * 10 > max_storage * 9

\* _calculate_directory_size, lines 48-61: the sizes of all the files under
\* the directory, the sidecar logs included
RECURSIVE DirectorySize(_)
DirectorySize(S) ==
  IF S = {} THEN 0
  ELSE LET f == CHOOSE g \in S : TRUE IN f.size + DirectorySize(S \ {f})

\* an operation of the storage manager begins when no other is running
SweepIdle == sweep.pc \in {"idle", "done", "raised"}

\* lines 172-178: the usage is measured; nothing is removed when it is not
\* above the warning threshold
quota_start ==
  /\ SweepIdle
  /\ LET current_size == DirectorySize(files) IN
     sweep' = [IdleSweep EXCEPT
                 !.pc = IF AboveWarning(current_size) THEN "quota_list"
                        ELSE "done",
                 !.op = "clear_by_storage_limit",
                 !.listed = files,
                 !.current_size = current_size]
  /\ UNCHANGED files
  /\ UNCHANGED <<rvars, svars>>

\* lines 183-203: the files of the camera directories but the sidecar logs,
\* with their dates and sizes; a stat() that raises (lines 194, 199) ends
\* the call with the exception
quota_list ==
  /\ sweep.pc = "quota_list"
  /\ \/ sweep' = [sweep EXCEPT !.pc = "quota_scan",
                                !.todo = {f \in files : ~IsSidecar(f)}]
     \/ /\ \E f \in files : ~IsSidecar(f)
        /\ sweep' = [sweep EXCEPT !.pc = "raised", !.aborted = TRUE]
  /\ UNCHANGED files
  /\ UNCHANGED <<rvars, svars>>

\* line 203: the files are visited by date, the oldest first
Oldest(S) == {f \in S : \A g \in S : file_date(f) <= file_date(g)}

\* lines 208-219: the loop ends at the target; else the oldest file left is
\* removed and its size subtracted, or its removal raises and is logged
quota_file ==
  /\ sweep.pc = "quota_scan"
  /\ sweep.todo # {}
  /\ sweep.current_size > target_size
  /\ \E f \in Oldest(sweep.todo) :
       \/ /\ files' = files \ {f}
          /\ sweep' = [sweep EXCEPT !.todo = @ \ {f},
                                    !.removed = @ \cup {f},
                                    !.current_size = @ - f.size]
       \/ /\ sweep' = [sweep EXCEPT !.todo = @ \ {f},
                                    !.failed = @ \cup {f}]
          /\ UNCHANGED files
  /\ UNCHANGED <<rvars, svars>>

\* lines 209-210 and 221-227: the loop is over and the result returned
quota_end ==
  /\ sweep.pc = "quota_scan"
  /\ sweep.todo = {} \/ sweep.current_size <= target_size
  /\ sweep' = [sweep EXCEPT !.pc = "done"]
  /\ UNCHANGED files
  /\ UNCHANGED <<rvars, svars>>

clear_by_storage_limit ==
  \/ quota_start
  \/ quota_list
  \/ quota_file
  \/ quota_end

\* --------------------------------------------------- clear_all_recordings
\* line 234: os.walk lists every file under OUTPUT_DIR
clear_all_start ==
  /\ SweepIdle
  /\ sweep' = [IdleSweep EXCEPT !.pc = "all_scan",
                                !.op = "clear_all_recordings",
                                !.listed = files, !.todo = files]
  /\ UNCHANGED files
  /\ UNCHANGED <<rvars, svars>>

\* lines 235-243: the file is removed, whatever its name; or its removal
\* raises FileNotFoundError or PermissionError and is logged
clear_all_file ==
  /\ sweep.pc = "all_scan"
  /\ \E f \in sweep.todo :
       \/ /\ files' = files \ {f}
          /\ sweep' = [sweep EXCEPT !.todo = @ \ {f},
                                    !.removed = @ \cup {f}]
       \/ /\ sweep' = [sweep EXCEPT !.todo = @ \ {f},
                                    !.failed = @ \cup {f}]
          /\ UNCHANGED files
  /\ UNCHANGED <<rvars, svars>>

\* lines 245-251
clear_all_end ==
  /\ sweep.pc = "all_scan"
  /\ sweep.todo = {}
  /\ sweep' = [sweep EXCEPT !.pc = "done"]
  /\ UNCHANGED files
  /\ UNCHANGED <<rvars, svars>>

clear_all_recordings ==
  \/ clear_all_start
  \/ clear_all_file
  \/ clear_all_end

\* ---------------------------------------------------- get_recordings_list
\* lines 261-320: the files of the camera directories but the sidecar logs;
\* a file whose stat() raises is left out (lines 299-300)
get_recordings_list ==
  /\ SweepIdle
  /\ \E unreadable \in SUBSET {f \in files : ~IsSidecar(f)} :
       sweep' = [IdleSweep EXCEPT
                   !.pc = "done", !.op = "get_recordings_list",
                   !.listed = files,
                   !.entries = {f \in files : ~IsSidecar(f)} \ unreadable]
  /\ UNCHANGED files
  /\ UNCHANGED <<rvars, svars>>

\* ----------------------------------------------------- create_zip_archive
\* The selections of the routes of app.py: none (download_all_recordings,
\* line 189) or the paths the request names (download_selected_recordings,
\* lines 204-210), which are any paths under OUTPUT_DIR; a path is the id of
\* the file it names.
Selections == {{}} \cup (SUBSET (1..4) \ {{}})

\* lines 330-344: the files written to the archive
Archived(selection) ==
  IF selection # {}
  THEN {f \in files : f.id \in selection}
  ELSE {f \in files : ~IsSidecar(f)}

\* lines 346-350: the files unlinked after the archive is written
Unlinked(selection, remove_after) ==
  IF remove_after /\ selection # {}
  THEN {f \in files : f.id \in selection}
  ELSE {}

\* lines 322-367: the archive is written and, when asked, the files the call
\* names are unlinked, and the result is a success; or writing the archive
\* raises, or an unlink raises after some files were unlinked, and the
\* result is a failure (lines 362-367)
zip_archive(selection, remove_after) ==
  /\ SweepIdle
  /\ LET call == [IdleSweep EXCEPT
                    !.pc = "done", !.op = "create_zip_archive",
                    !.listed = files,
                    !.todo = {f \in files : f.id \in selection},
                    !.remove_after = remove_after]
     IN
     \/ /\ sweep' = [call EXCEPT
                       !.entries = Archived(selection),
                       !.removed = Unlinked(selection, remove_after)]
        /\ files' = files \ Unlinked(selection, remove_after)
     \/ /\ sweep' = [call EXCEPT !.aborted = TRUE]
        /\ UNCHANGED files
     \/ \E f \in Unlinked(selection, remove_after) :
          \E done \in SUBSET (Unlinked(selection, remove_after) \ {f}) :
            /\ sweep' = [call EXCEPT !.aborted = TRUE, !.removed = done,
                                     !.errors = {f}]
            /\ files' = files \ done
  /\ UNCHANGED <<rvars, svars>>

\* the calls of the routes of app.py (lines 189 and 210): remove_after is
\* left at its default
create_zip_archive ==
  \E selection \in Selections : zip_archive(selection, FALSE)

\* the sizes of the files, and the sizes of a sidecar log
Sizes == {2, 3}
LogSizes == {2, 9}

\* The camera directories of the storage runs: the files of FileSets, with
\* their sizes.  The segment of camera "front_door" was last written at the
\* time in its name or, being a late segment of its job, a day after it.
Trees ==
  { { [id |-> 1, name |-> RecordingName(1, d1, 0), mtime |-> d1 * DAY,
       size |-> s1],
      [id |-> 2, name |-> RecordingName(2, d2, 0), mtime |-> d2 * DAY + w2,
       size |-> s2],
      [id |-> 3, name |-> OtherName("ffmpeg_log.txt", 2), mtime |-> DAY,
       size |-> s3],
      [id |-> 4, name |-> OtherName("notes.txt", 1), mtime |-> d1 * DAY,
       size |-> s4] } :
    d1 \in Dates, d2 \in Dates, w2 \in {0, DAY}, s1 \in Sizes,
    s2 \in Sizes, s3 \in LogSizes, s4 \in Sizes }

\* the storage runs: the operations of the storage manager on a tree of
\* files, one at a time, nothing else running
InitReclaim ==
  /\ InitRegistry
  /\ now \in Clock
  /\ sched = IdleScheduler
  /\ manual_stops = [c \in CameraIds |-> None]
  /\ sun_times_cache = [c \in CameraIds |-> NoSunTimes]
  /\ human_stop = [c \in CameraIds |-> None]
  /\ details = AutoDetails
  /\ files \in Trees
  /\ sweep = IdleSweep
  /\ limit = [calls |-> 0, tasks |-> 0, procs |-> 0, fails |-> 0,
              clock |-> 0]

NextReclaim ==
  \/ clear_old_recordings
  \/ clear_by_storage_limit
  \/ clear_all_recordings
  \/ get_recordings_list
  \/ create_zip_archive

SpecReclaim == InitReclaim /\ [][NextReclaim]_vars

\* the export runs: calls of create_zip_archive with either value of
\* remove_after, between listings of the tree
NextArchive ==
  \/ \E selection \in Selections, remove_after \in BOOLEAN :
       zip_archive(selection, remove_after)
  \/ get_recordings_list

\* the trees of the export runs: an export reads no size
InitArchive ==
  /\ InitReclaim
  /\ now = DAY
  /\ \A f \in files : f.size = 2

SpecArchive == InitArchive /\ [][NextArchive]_vars

\* ------------------------------------------------------- recording runs
\* the clock moves by one unit, at any time
Tick ==
  /\ now < limit.clock
  /\ now' = now + 1
  /\ UNCHANGED <<details, sched, manual_stops, sun_times_cache, human_stop>>
  /\ UNCHANGED <<rvars, fvars>>

\* lines 420-421 and 429-430 with the clock: stop_event.wait(retry_delay)
\* returns at once when the event is set, and after retry_delay else
timed_wait(t) ==
  /\ record_wait(t)
  /\ IF IsSet(task[t].stop_event)
     THEN UNCHANGED now
     ELSE /\ now + task[t].retry_delay <= limit.clock
          /\ now' = now + task[t].retry_delay
  /\ UNCHANGED <<details, sched, manual_stops, sun_times_cache, human_stop>>
  /\ UNCHANGED fvars

\* The restart runs, while the clock moves second by second: the operator
\* starts, stops and starts camera cam1 within a second or two; or starts it
\* once, and its encoder exits and is relaunched after the retry delay.
StampLimits ==
  { [calls |-> MaxStampCalls, tasks |-> 2, procs |-> 2, fails |-> 0,
     clock |-> TICK_PERIOD + 1],
    [calls |-> 1, tasks |-> 1, procs |-> 2, fails |-> 0,
     clock |-> TICK_PERIOD + MaxStampClock] }

InitStamp ==
  /\ InitRegistry
  /\ InitScheduler
  /\ details = AutoDetails
  /\ InitStorage
  /\ limit \in StampLimits

NextStamp ==
  \/ OperatorCall("cam1") /\ UNCHANGED <<svars, fvars>>
  \/ start_recording("operator") /\ UNCHANGED <<svars, fvars>>
  \/ stop_recording("operator") /\ UNCHANGED <<svars, fvars>>
  \/ (\E t \in Tasks :
        \/ record_init(t)
        \/ record_loop(t)
        \/ record_launch(t)
        \/ record_monitor(t)
        \/ record_check(t)
        \/ record_terminate(t)
        \/ record_grace(t)
        \/ record_cleanup(t)) /\ UNCHANGED <<svars, fvars>>
  \/ (\E t \in Tasks : timed_wait(t))
  \/ (\E p \in Procs : ProcExit(p)) /\ UNCHANGED <<svars, fvars>>
  \/ Tick

SpecStamp == InitStamp /\ [][NextStamp]_vars

\* the segment an encoder process writes: a file of its camera directory
\* named by its output pattern (lines 366-370), <camera_id>_<start_time>_NNN;
\* id is the number NNN, open the process that has the file open
Segment(p, size) ==
  [id |-> proc[p].segment + 1,
   name |-> RecordingName(1, proc[p].start_time \div DAY,
                          proc[p].start_time % DAY),
   mtime |-> now, size |-> size, open |-> p]

\* the file is open for writing by an encoder process that runs
IsOpen(f) == f.open # None /\ Running(f.open)

\* the sizes of a segment
SegmentSizes == {2, 5}

\* lines 348-370, the segment muxer of the encoder: the process closes the
\* segment it writes, if any, and opens the next one of its pattern
segment_open(p) ==
  /\ proc[p].st = "running"
  /\ proc[p].segment < MaxSegments
  /\ \E size \in SegmentSizes :
       files' = {[f EXCEPT !.open = IF @ = p THEN None ELSE @] : f \in files}
                  \cup {Segment(p, size)}
  /\ proc' = [proc EXCEPT ![p].segment = @ + 1]
  /\ UNCHANGED sweep
  /\ UNCHANGED <<cameras, host, registry, events, task, caller, started, stopped,
                 ncalls, limit>>
  /\ UNCHANGED svars

\* the recording runs: the operator starts camera cam1, its encoder writes
\* segments while the clock moves, a day being DAY units of the clock, and
\* the retention and quota sweeps run
InitRecord ==
  /\ InitRegistry
  /\ now = DAY
  /\ sched = IdleScheduler
  /\ manual_stops = [c \in CameraIds |-> None]
  /\ sun_times_cache = [c \in CameraIds |-> NoSunTimes]
  /\ human_stop = [c \in CameraIds |-> None]
  /\ details = AutoDetails
  /\ InitStorage
  /\ limit = [calls |-> MaxRecordCalls, tasks |-> 1, procs |-> 1, fails |-> 0,
              clock |-> DAY + MaxRecordClock]

NextRecord ==
  \/ OperatorCall("cam1") /\ UNCHANGED <<svars, fvars>>
  \/ start_recording("operator") /\ UNCHANGED <<svars, fvars>>
  \/ stop_recording("operator") /\ UNCHANGED <<svars, fvars>>
  \/ (\E t \in Tasks : record_rtsp_stream(t)) /\ UNCHANGED <<svars, fvars>>
  \/ (\E p \in Procs : segment_open(p))
  \/ Tick
  \/ clear_old_recordings
  \/ clear_by_storage_limit

SpecRecord == InitRecord /\ [][NextRecord]_vars

\* The two-camera runs: cam1 and cam2 both have a stream URL; the operator
\* starts and stops them, and their encoders exit and are relaunched.
InitPair ==
  /\ cameras = [c \in CameraIds |->
                  IF c \in {"cam1", "cam2"} THEN "url" ELSE "unknown"]
  /\ encoding_capabilities = Software
  /\ platform = "Linux"
  /\ InitJobs
  /\ InitScheduler
  /\ details = AutoDetails
  /\ InitStorage
  /\ limit = [calls |-> MaxPairCalls, tasks |-> 2, procs |-> MaxPairProcs,
              fails |-> 1, clock |-> 1]

NextPair ==
  \/ (\E c \in {"cam1", "cam2"} : OperatorCall(c))
       /\ UNCHANGED <<svars, fvars>>
  \/ start_recording("operator") /\ UNCHANGED <<svars, fvars>>
  \/ stop_recording("operator") /\ UNCHANGED <<svars, fvars>>
  \/ (\E t \in Tasks : record_rtsp_stream(t)) /\ UNCHANGED <<svars, fvars>>
  \/ (\E p \in Procs : ProcExit(p)) /\ UNCHANGED <<svars, fvars>>

SpecPair == InitPair /\ [][NextPair]_vars

\* ---------------------------------------------------------- preset runs
\* _detect_encoding_capabilities, lines 196-216: the presets of a host
\* without GPU encoder, with the NVIDIA encoders, with the Intel encoder
Hosts ==
  { Software,
    Software \cup {"h264_nvenc", "h265_nvenc"},
    Software \cup {"h264_qsv"} }

\* app.py lines 72 and 349: the preset of a request is any string, the value
\* of a preset or not
Requests == EncodingPreset \cup {"h264_vaapi"}

\* The preset runs: on some host, the operator starts camera cam1 with some
\* preset, and stops it.
InitPreset ==
  /\ cameras = [c \in CameraIds |->
                  IF c = "cam1" THEN "url" ELSE IF c = "cam2" THEN "nourl"
                  ELSE "unknown"]
  /\ encoding_capabilities \in Hosts
  /\ platform = "Linux"
  /\ InitJobs
  /\ InitScheduler
  /\ details = AutoDetails
  /\ InitStorage
  /\ limit = [calls |-> MaxPresetCalls, tasks |-> 1, procs |-> 1,
              fails |-> 0, clock |-> 1]

NextPreset ==
  \/ (\E preset \in Requests : StartRequest("operator", "cam1", preset))
       /\ UNCHANGED <<svars, fvars>>
  \/ StopInvoke("operator", "cam1") /\ UNCHANGED <<svars, fvars>>
  \/ start_recording("operator") /\ UNCHANGED <<svars, fvars>>
  \/ stop_recording("operator") /\ UNCHANGED <<svars, fvars>>
  \/ (\E t \in Tasks : record_rtsp_stream(t)) /\ UNCHANGED <<svars, fvars>>
  \/ (\E p \in Procs : ProcExit(p)) /\ UNCHANGED <<svars, fvars>>

SpecPreset == InitPreset /\ [][NextPreset]_vars

\* -------------------------------------------------------- shutdown runs
Max(a, b) == IF a < b THEN b ELSE a

\* process.wait(timeout=...) of _graceful_stop_ffmpeg with the clock: it
\* returns when the process has exited, and raises TimeoutExpired when the
\* grace period has passed since the wait began; the process is then killed
WaitEnds(p, wait_start) ==
  IF proc'[p] # proc[p]
  THEN /\ Max(now, wait_start + GracePeriod) <= limit.clock
       /\ now' = Max(now, wait_start + GracePeriod)
  ELSE UNCHANGED now

timed_stop_grace(k) ==
  /\ stop_grace(k)
  /\ WaitEnds(caller[k].process, caller[k].wait_start)
  /\ UNCHANGED <<details, sched, manual_stops, sun_times_cache, human_stop>>
  /\ UNCHANGED fvars

timed_record_grace(t) ==
  /\ record_grace(t)
  /\ WaitEnds(task[t].process, task[t].wait_start)
  /\ UNCHANGED <<details, sched, manual_stops, sun_times_cache, human_stop>>
  /\ UNCHANGED fvars

\* The shutdown runs, on Linux and on Windows: the operator starts camera
\* cam1 and stops it while the clock moves second by second; the encoder
\* exits when asked to, or not.
InitGrace ==
  /\ cameras = [c \in CameraIds |->
                  IF c = "cam1" THEN "url" ELSE IF c = "cam2" THEN "nourl"
                  ELSE "unknown"]
  /\ encoding_capabilities = Software
  /\ platform \in {"Linux", "Windows"}
  /\ InitJobs
  /\ InitScheduler
  /\ details = AutoDetails
  /\ InitStorage
  /\ limit = [calls |-> MaxGraceCalls, tasks |-> 1, procs |-> 1,
              fails |-> 0, clock |-> TICK_PERIOD + MaxGraceClock]

NextGrace ==
  \/ OperatorCall("cam1") /\ UNCHANGED <<svars, fvars>>
  \/ start_recording("operator") /\ UNCHANGED <<svars, fvars>>
  \/ (\E k \in Callers :
        \/ stop_flag_test(k)
        \/ stop_flag_set(k)
        \/ stop_lookup(k)
        \/ stop_terminate(k)
        \/ stop_thread_test(k)
        \/ stop_join(k)
        \/ stop_thread_del(k)
        \/ stop_registry_del(k)
        \/ stop_flag_test2(k)
        \/ stop_flag_del(k)) /\ UNCHANGED <<svars, fvars>>
  \/ (\E k \in Callers : timed_stop_grace(k))
  \/ (\E t \in Tasks :
        \/ record_init(t)
        \/ record_loop(t)
        \/ record_launch(t)
        \/ record_monitor(t)
        \/ record_check(t)
        \/ record_terminate(t)
        \/ record_wait(t)
        \/ record_cleanup(t)) /\ UNCHANGED <<svars, fvars>>
  \/ (\E t \in Tasks : timed_record_grace(t))
  \/ (\E p \in Procs : ProcExit(p)) /\ UNCHANGED <<svars, fvars>>
  \/ Tick

SpecGrace == InitGrace /\ [][NextGrace]_vars

\* ================================================================ claims
\* a call of operation op on camera c that has returned
Returned(k, op, c) ==
  /\ caller[k].pc = "returned"
  /\ caller[k].op = op
  /\ caller[k].camera_id = c

\* a stop_recording(c) that found a job and has not finished its cleanup
StopInProgress(k, c) ==
  /\ caller[k].op = "stop"
  /\ caller[k].camera_id = c
  /\ caller[k].live
  /\ caller[k].pc # "returned"

\* C1: every camera id has at most one live job: at most one recorder thread
\* alive and at most one encoder process running.
OneLiveJobPerCamera ==
  \A c \in CameraIds :
    /\ Cardinality(AliveTasks(c)) <= 1
    /\ Cardinality(RunningProcs(c)) <= 1

\* C2: of the start calls made for the same idle camera before any of them
\* launched a thread, at most one returns True.
ConcurrentStartsOneWinner ==
  \A c \in CameraIds : \A k1, k2 \in Callers :
    ( /\ Returned(k1, "start", c) /\ caller[k1].saw_idle
      /\ Returned(k2, "start", c) /\ caller[k2].saw_idle
      /\ caller[k1].result = "True" /\ caller[k2].result = "True" )
    => k1 = k2

\* C3: a start called after a start of the same camera returned True, with
\* no stop called since, returns False.
IdempotentStart ==
  \A c \in CameraIds : \A k \in Callers :
    (Returned(k, "start", c) /\ caller[k].after_start)
    => caller[k].result = "False"

\* C4: a stop that returns False (no job in the registry) has set no
\* cancellation signal.
IdempotentStop ==
  \A c \in CameraIds : \A k \in Callers :
    (Returned(k, "stop", c) /\ caller[k].result = "False")
    => ~caller[k].has_set

\* C5: after a stop of camera c returned True, c is absent from the status
\* until a start of c returns True.
StoppedStaysAbsent ==
  \A c \in CameraIds : stopped[c] => c \notin get_recording_status

\* C6: no start returns True for a camera while a stop of that camera that
\* found a job has cleanup left to do.
StartExcludesStop ==
  [][\A k \in Callers :
       ( /\ caller[k].pc = "start_launch"
         /\ caller'[k].pc = "returned"
         /\ caller'[k].result = "True" )
       => \A j \in Callers : ~StopInProgress(j, caller[k].camera_id)]_vars

\* C8: a stop that found a job in the registry returns True.
StopOnLiveJobReturnsTrue ==
  \A c \in CameraIds : \A k \in Callers :
    (Returned(k, "stop", c) /\ caller[k].live) => caller[k].result = "True"

\* the recorder thread t launches an encoder process in this step
Launches(t) == task[t].pc = "launch" /\ task'[t].pc = "monitor"

\* the cancellation signal the recorder thread t waits on is set
Cancelled(t) == task[t].pc # "init" /\ IsSet(task[t].stop_event)

\* C7 as stated: once the cancellation signal of a job is set, its recorder
\* thread launches no encoder process.
NoLaunchOnceCancelled ==
  [][\A t \in Tasks : Cancelled(t) => ~Launches(t)]_vars

\* C7 as amended: a cancelled recorder thread never passes the loop test
\* again, so that it launches at most the one encoder whose launch it had
\* already begun, and under fair scheduling it exits.
CancelledTaskExits ==
  /\ [][\A t \in Tasks :
          (Cancelled(t) /\ task[t].pc # "launch") => task'[t].pc # "launch"]_vars
  /\ \A t \in 1..MaxTasks :
       (t \in Tasks /\ Cancelled(t)) ~> (t \in Tasks /\ task[t].pc = "done")

\* C7 witness: a thread cancelled after at least one restart has exited
CancelledTaskExited ==
  \E t \in Tasks :
    /\ Cancelled(t)
    /\ task[t].pc = "done"
    /\ task[t].restarts_count >= 1

\* the delay the spec gives for a value of the consecutive-failure counter
SpecDelay(n) ==
  IF n < 5 THEN 5 ELSE Min(5 * Pow2(Min(n, 6)), 300)

\* the recorder thread t ends the handling of an unrequested exit
HandlesExit(t) == task[t].pc = "check" /\ task'[t].pc = "wait"

\* C9: the retry delay never exceeds 300 s, it does not decrease from one
\* iteration to the next while the last attempt failed, and an exit with
\* code 0 resets the consecutive-failure counter to 0.
BackoffMonotone ==
  /\ [](\A t \in Tasks : task[t].retry_delay <= 300)
  /\ [][\A t \in Tasks :
          /\ ( /\ task[t].pc = "loop" /\ task'[t].pc = "launch"
               /\ task[t].consecutive_failures > 0 )
             => task'[t].retry_delay >= task[t].retry_delay
          /\ (HandlesExit(t) /\ proc[task[t].process].rc = 0)
             => task'[t].consecutive_failures = 0]_vars

\* C9 witness: after seven failures in a row the thread waits 300 s
BackoffAtCeiling ==
  \E t \in Tasks :
    /\ task[t].pc = "wait"
    /\ task[t].consecutive_failures = 7
    /\ task[t].retry_delay = 300

\* C10 as stated: the delay waited after an unrequested exit is the one of
\* the consecutive-failure counter as updated by that exit.
DelayFromUpdatedCounter ==
  \A t \in Tasks :
    task[t].pc = "wait"
    => task[t].retry_delay = SpecDelay(task[t].consecutive_failures)

\* C10 as amended: the exit updates the counters, and the delay waited is
\* the one of the consecutive-failure counter as it was before that exit.
DelayFromCounterBeforeExit ==
  [][\A t \in Tasks :
       HandlesExit(t) =>
         /\ task'[t].retry_delay = SpecDelay(task[t].consecutive_failures)
         /\ task'[t].restarts_count = task[t].restarts_count + 1
         /\ task'[t].consecutive_failures =
              IF proc[task[t].process].rc # 0
              THEN Min(task[t].consecutive_failures + 1, limit.fails)
              ELSE 0]_vars

\* C10 witness: after the fifth failure in a row the thread waits 5 s
FifthFailureWaitsBase ==
  \E t \in Tasks :
    /\ task[t].pc = "wait"
    /\ task[t].consecutive_failures = 5
    /\ task[t].restarts_count = 5
    /\ task[t].retry_delay = 5

\* C11: when the launch of the encoder fails, the start of the camera has
\* reported failure and no job is registered for the camera: no thread
\* handle and no cancellation signal.
LaunchErrorFailsStart ==
  \A t \in Tasks :
    task[t].pc = "exc_wait" =>
      /\ ~started[task[t].camera_id]
      /\ recording_threads[task[t].camera_id] = None
      /\ stop_flags[task[t].camera_id] = None
      /\ recording_processes[task[t].camera_id] = None

StatusFromStartToStop ==
  \A c \in CameraIds : started[c] => c \in get_recording_status

\* the scheduler thread calls start_recording(c) in this step
SchedulerStarts(c) ==
  /\ caller["scheduler"].pc \in {"idle", "returned"}
  /\ caller'["scheduler"].pc = "start_check"
  /\ caller'["scheduler"].camera_id = c

\* the scheduler thread calls stop_recording(c) in this step
SchedulerStops(c) ==
  /\ caller["scheduler"].pc \in {"idle", "returned"}
  /\ caller'["scheduler"].pc = "stop_flag_test"
  /\ caller'["scheduler"].camera_id = c

\* C14: while camera c carries the override of a mark_manual_stop made at
\* time t, no tick at a time earlier than t + 300 s calls start for c.
ManualOverrideRespected ==
  [][\A c \in CameraIds :
       (SchedulerStarts(c) /\ manual_stops[c] # None)
       => sched.now_local >= manual_stops[c] + 300]_vars

\* C15: the scheduler does not start a camera within 300 s of a stop of the
\* operator that returned True.
HumanStopNotUndone ==
  [][\A c \in CameraIds : SchedulerStarts(c) => human_stop[c] = None]_vars

\* the tick evaluates camera c in this step (lines 185-210)
Evaluates(c) ==
  /\ sched.pc = "eval"
  /\ sched'.pc = "call"
  /\ CameraOrder[sched.idx] = c

\* the scheduler thread is inside a tick
InTick(s) == s.pc \in {"camera", "cooldown", "expired", "eval", "call"}

\* C16: a tick that evaluates an automatic camera calls start once when it
\* is night and the camera is not in the status, stop once when it is day
\* and the camera is in the status, and nothing otherwise; the scheduler
\* calls the recorder in no other step, and no camera twice in a tick.
TickCallsSupervisorOnce ==
  [][/\ \A c \in CameraIds :
          (Evaluates(c) /\ sched'.outcome = "ok") =>
            LET night == sched'.is_night
                recording == c \in get_recording_status IN
            /\ (night /\ ~recording)
               => (SchedulerStarts(c) /\ ncalls' = ncalls + 1)
            /\ (~night /\ recording)
               => (SchedulerStops(c) /\ ncalls' = ncalls + 1)
            /\ (night <=> recording) => UNCHANGED <<caller, ncalls>>
     /\ (\E c \in CameraIds : SchedulerStarts(c) \/ SchedulerStops(c))
        => sched.pc = "eval"
     /\ (InTick(sched) /\ InTick(sched') /\ sched' # sched) =>
          /\ sched'.idx >= sched.idx
          /\ sched.pc = "call" => sched'.idx > sched.idx]_vars

\* C16 witness: by day a tick has called stop for a recording camera
TickStopsByDay ==
  /\ sched.pc = "call"
  /\ sched.outcome = "ok"
  /\ ~sched.is_night
  /\ caller["scheduler"].op = "stop"
  /\ caller["scheduler"].pc = "stop_flag_test"
  /\ caller["scheduler"].camera_id = CameraOrder[sched.idx]

\* C17: with today's sunrise and sunset, a time before the sunrise or at or
\* after the sunset is classified as night, and a time from the sunrise up
\* to the sunset, the sunset excluded, as day.
NightClassification ==
  sched.outcome = "ok" =>
    LET sun_times == sun_times_cache[CameraOrder[sched.idx]] IN
    sched.is_night <=> ( \/ sched.at < sun_times.sunrise_today
                         \/ sched.at >= sun_times.sunset_today )

\* C17 witness: the instant of the sunset has been classified as night
SunsetIsNight ==
  /\ sched.outcome = "ok"
  /\ sched.at = sun_times_cache[CameraOrder[sched.idx]].sunset_today
  /\ sched.is_night

\* C18: a tick whose day/night computation fails for a camera calls neither
\* start nor stop for that camera.
ComputationErrorSkipsCamera ==
  [][\A c \in CameraIds :
       (Evaluates(c) /\ sched'.outcome # "ok")
       => UNCHANGED <<caller, ncalls>>]_vars

\* C19: the thread of the scheduler is never terminated by an exception.
TickLoopKeepsRunning == sched.pc # "dead"

\* the timestamp of a file: the one its name encodes when it is the name of
\* a recording, else its modification time
Timestamp(f) ==
  IF f.name.text = "" THEN f.name.date * DAY + f.name.time ELSE f.mtime

\* C20: when a sweep has returned, every file it listed with a timestamp
\* strictly before the cutoff is removed (unless its removal failed and was
\* reported), every file with a timestamp at or after the cutoff is kept,
\* and the sidecar log is kept.
RetentionSweepBoundary ==
  sweep.pc = "done" =>
    \A f \in sweep.listed :
      /\ IsSidecar(f) => f \in files
      /\ (~IsSidecar(f) /\ Timestamp(f) < sweep.cutoff_date
            /\ f \notin sweep.errors) => f \notin files
      /\ (~IsSidecar(f) /\ Timestamp(f) >= sweep.cutoff_date) => f \in files

\* the quota sweep has returned its result
QuotaDone == sweep.pc = "done" /\ sweep.op = "clear_by_storage_limit"

SidecarNeverDeletedNorListed ==
  /\ \A f \in sweep.removed : ~IsSidecar(f)
  /\ sweep.op = "get_recordings_list" =>
       \A f \in sweep.entries : ~IsSidecar(f)

\* C23: an archive holds no sidecar log, whether made from the default
\* selection of all the files or from an explicit selection that names the
\* sidecar log.
ArchiveExcludesSidecar ==
  sweep.op = "create_zip_archive" =>
    \A f \in sweep.entries : ~IsSidecar(f)

\* C25: a failure to stat or to remove one file never aborts a retention or
\* quota sweep: the sweep returns a result, every other file it had to
\* remove is processed (removed, or reported as failed), and every failure
\* is in the error list of the result.
SweepSurvivesFileFailure ==
  /\ sweep.pc # "raised"
  /\ (sweep.pc = "done" /\ sweep.op = "clear_old_recordings") =>
       \A f \in sweep.listed :
         (~IsSidecar(f) /\ file_date(f) < sweep.cutoff_date)
           => f \in sweep.removed \cup sweep.errors
  /\ (sweep.pc = "done" /\ sweep.op = "clear_by_storage_limit") =>
       sweep.failed \subseteq sweep.errors

\* C24: no step of a retention sweep or of a quota sweep removes the segment
\* that an encoder process which runs has open for writing.
OpenSegmentNotDeleted ==
  [][\A f \in files :
       IsOpen(f) => \E g \in files' : g.id = f.id /\ g.name = f.name]_vars

\* C27: of any two encoder launches for the same camera, the later one has
\* the strictly later timestamp in its segment filename pattern, whether it
\* is a restart in the loop or a start after a stop.
LaunchStampsIncrease ==
  \A p, q \in Procs :
    (p < q /\ proc[p].camera_id = proc[q].camera_id)
      => proc[p].start_time < proc[q].start_time

\* a step of a call on camera a, of a recorder thread of camera a, or of an
\* encoder process of camera a
ActsOn(a) ==
  \/ \E k \in Callers : caller'[k] # caller[k] /\ caller'[k].camera_id = a
  \/ \E t \in Tasks : task'[t] # task[t] /\ task[t].camera_id = a
  \/ \E p \in Procs : proc'[p] # proc[p] /\ proc[p].camera_id = a

\* the step leaves alone the registry entry of camera b, its thread handle,
\* its cancellation signal, its recorder threads with their counters, and
\* its encoder processes, and creates no thread and no process for it
Untouched(b) ==
  /\ recording_processes'[b] = recording_processes[b]
  /\ recording_threads'[b] = recording_threads[b]
  /\ recording_stats'[b] = recording_stats[b]
  /\ stop_flags'[b] = stop_flags[b]
  /\ \A t \in Tasks :
       task[t].camera_id = b =>
         /\ task'[t] = task[t]
         /\ (t \in events') = (t \in events)
  /\ \A p \in Procs : proc[p].camera_id = b => proc'[p] = proc[p]
  /\ \A t \in (1..Len(task')) \ Tasks : task'[t].camera_id # b
  /\ \A p \in (1..Len(proc')) \ Procs : proc'[p].camera_id # b

\* C26: a step on camera a (of a start, a stop, an exit of its encoder, a
\* restart, a failure in its loop) leaves the registry entry, the
\* cancellation signal, the recorder thread and the counters of every other
\* camera unchanged.
CameraIsolation ==
  [][\A a \in CameraIds :
       ActsOn(a) => \A b \in CameraIds \ {a} : Untouched(b)]_vars

\* C26 witness: a stop of cam1 has returned True while cam2 has a job whose
\* encoder runs and that nobody has cancelled
OtherCameraKeepsJob ==
  /\ stopped["cam1"]
  /\ recording_processes["cam2"] # None
  /\ Running(recording_processes["cam2"])
  /\ recording_threads["cam2"] # None
  /\ stop_flags["cam2"] # None
  /\ ~IsSet(stop_flags["cam2"])

\* C28: a recorder thread that a stop has cancelled never removes, in its
\* final cleanup, and never overwrites the registry entry of the job of a
\* later start of its camera: the entry it removes holds a process of its
\* own.
TaskTouchesOwnEntryOnly ==
  [][\A t \in Tasks :
       LET c == task[t].camera_id IN
       ( /\ task'[t] # task[t]
         /\ IsSet(task[t].stop_event)
         /\ recording_processes'[c] # recording_processes[c] )
       => ~ \E u \in Tasks : /\ u > t
                            /\ task[u].process # None
                            /\ task[u].process = recording_processes[c]]_vars

\* the recorder thread t is the live job of its camera: it is alive and it
\* is the thread the registry holds for the camera
LiveJob(t) == Alive(t) /\ recording_threads[task[t].camera_id] = t

\* C29: while a job is live, the Event registered for its camera is the one
\* the start created for it, and it is the Event its recorder thread tests
\* and waits on once it has fetched it: no cleanup of an earlier stop has
\* discarded or replaced it.
LiveJobHoldsRegisteredSignal ==
  \A t \in Tasks :
    LiveJob(t) =>
      /\ stop_flags[task[t].camera_id] = t
      /\ task[t].pc # "init" => task[t].stop_event = t

\* C30: at the moment stop_recording(c) returns True no encoder process
\* launched for camera c is running, a process the recorder thread launched
\* while the stop was being made included.
StopLeavesNoEncoder ==
  [][\A k \in Callers :
       ( /\ ~ Returned(k, "stop", caller[k].camera_id)
         /\ Returned(k, "stop", caller[k].camera_id)'
         /\ caller'[k].result = "True" )
       => \A p \in Procs :
            proc'[p].camera_id = caller[k].camera_id => ~ Running(p)']_vars

\* the steps of start_recording and stop_recording made inside a block
\* `with self.process_lock` (lines 518-530, 541-578, 586-591, 600-602), and
\* those of the recorder thread (lines 385-386, 432-435)
CallerUnderLock == {"start_check", "start_launch", "stop_lookup",
                    "stop_registry_del"}
TaskUnderLock == {"launch", "cleanup"}

\* the step is one a caller or a recorder thread makes holding process_lock
StepUnderLock ==
  \/ \E k \in Callers : caller[k].pc \in CallerUnderLock /\ caller'[k] # caller[k]
  \/ \E t \in Tasks : task[t].pc \in TaskUnderLock /\ task'[t] # task[t]

\* C31: every write of the shared state of the job registry (the process
\* map, the stop flags and the thread handles) is made by a step that holds
\* process_lock.
RegistryWrittenUnderLock ==
  [][( \/ recording_processes' # recording_processes
       \/ stop_flags' # stop_flags
       \/ recording_threads' # recording_threads ) => StepUnderLock]_vars

\* C32: a fault raised inside the loop does not end the recorder thread: it
\* is caught, the consecutive-failure counter goes up by one, and the thread
\* waits the retry delay a non-zero exit of the encoder would have waited in
\* that iteration, then tests its stop event again.
FaultCountedAndRetried ==
  [][\A t \in Tasks :
       /\ ( task[t].pc = "launch" /\ task'[t].pc \notin {"launch", "monitor"} )
          => /\ task'[t].pc = "exc_wait"
             /\ task'[t].consecutive_failures =
                  Min(task[t].consecutive_failures + 1, limit.fails)
             /\ task'[t].retry_delay = SpecDelay(task[t].consecutive_failures)
       /\ ( task[t].pc = "exc_wait" /\ task'[t] # task[t] )
          => /\ task'[t].pc = "loop"
             /\ task'[t].retry_delay = task[t].retry_delay
             /\ task'[t].consecutive_failures = task[t].consecutive_failures]_vars

\* C32 witness: the sixth fault in a row is caught and the thread waits 160 s
SixthFaultWaitsBackoff ==
  \E t \in Tasks :
    /\ task[t].pc = "exc_wait"
    /\ task[t].consecutive_failures = 6
    /\ task[t].errors_count = 6
    /\ task[t].retry_delay = 160

\* C33: a retention sweep with a window of d days removes no segment that
\* was written less than d days before the sweep began, i.e. after the
\* cutoff: the recent segments of a job that has run for longer than d stay.
RecentSegmentKept ==
  [][\A f \in sweep'.removed \ sweep.removed :
       sweep.op = "clear_old_recordings" /\ sweep.pc = "scan"
       => ~(f.mtime > sweep.cutoff_date)]_vars

\* C34: the quota sweep removes a file only when no recording with an older
\* timestamp remains, and only while the usage is above 80% of the quota.
QuotaOldestFirst ==
  [][\A f \in sweep'.removed \ sweep.removed :
       sweep.op = "clear_by_storage_limit"
       => /\ \A g \in files' :
               (~IsSidecar(g) /\ g.name.text = "")
                 => ~(Timestamp(g) < Timestamp(f))
          /\ DirectorySize(files) * 10 > max_storage * 8]_vars

\* C35: a start of an idle camera that asks for a preset outside the
\* capability set returns True, and the job of every start that returns True
\* runs with the preset asked for when the capability set has it and with
\* "copy" when not.
StartFallsBackToCopy ==
  [][\A k \in Callers :
       ( /\ caller[k].op = "start"
         /\ caller[k].pc # "returned"
         /\ caller'[k].pc = "returned" )
       => LET asked == caller[k].encoding_preset IN
          /\ ( /\ asked \notin encoding_capabilities
               /\ cameras[caller[k].camera_id] = "url"
               /\ caller[k].saw_idle )
             => caller'[k].result = "True"
          /\ caller'[k].result = "True"
             => task'[Len(task')].encoding_preset =
                  IF asked \in encoding_capabilities THEN asked ELSE "copy"]_vars

\* the step kills the encoder process p
Killed(p) == ~proc[p].killed /\ proc'[p].killed

\* C36: an encoder process is killed only by a stop that had asked it to
\* terminate, when 10 s have passed since that request and the process is
\* still running: a process that exited within the 10 s is not killed.
KillOnlyAfterGrace ==
  [][\A p \in Procs :
       Killed(p) =>
         /\ Running(p)
         /\ proc[p].st = "terminating"
         /\ \/ \E k \in Callers :
                 /\ caller[k].pc = "stop_grace" /\ caller[k].process = p
                 /\ caller'[k] # caller[k]
                 /\ now' >= caller[k].wait_start + 10
            \/ \E t \in Tasks :
                 /\ task[t].pc = "grace" /\ task[t].process = p
                 /\ task'[t] # task[t]
                 /\ now' >= task[t].wait_start + 10]_vars

\* C37: for every recording the supervisor names
\* <camera_id>_<date>_<time>_<NNN>.<ext>, whether or not the camera id holds
\* an underscore, the age a retention or quota sweep gives the file is the
\* timestamp of its name, and not its modification time.
AgeFromFilenameTimestamp ==
  sweep.op \in {"clear_old_recordings", "clear_by_storage_limit"} =>
    \A f \in sweep.listed :
      f.name.text = "" => file_date(f) = Timestamp(f)

\* C38: when an export asked to delete after archival succeeds, every file
\* placed in the archive is deleted, for an explicit selection and for the
\* default selection of all the files; when it fails, no file is deleted.
ArchiveThenDelete ==
  (sweep.op = "create_zip_archive" /\ sweep.remove_after) =>
    IF sweep.aborted
    THEN sweep.removed = {} /\ sweep.listed \subseteq files
    ELSE sweep.entries \subseteq sweep.removed /\ sweep.entries \cap files = {}

\* a call of start() of the scheduler made after a call of stop() returned
StartAfterStop ==
  /\ sched.stop_event
  /\ ~sched.joining
  /\ sched'.starts = sched.starts + 1

\* C39: a start() of the scheduler issued after stop() leaves a tick loop
\* running (a live thread whose stop event is clear), also when the thread
\* of the last loop had not ended when the join of stop() timed out.
StartAfterStopRunsTickLoop ==
  [][StartAfterStop =>
       /\ sched'.pc \notin {"none", "exited", "dead"}
       /\ ~sched'.stop_event]_vars

====
